---- MODULE Spec2Model ----
(***************************************************************************)
(* Model of the live capture pipeline of multivector_ml_ids:               *)
(*   src/src/capture/live_capture.py      (LiveCapture)                    *)
(*   src/src/capture/pcap_parser.py       (PcapParser._extract_flow_key)   *)
(*   src/src/api/services/live_detection_service.py (LiveDetectionService) *)
(*                                                                         *)
(* Threads: the sniff thread (capture_worker / _packet_callback), the      *)
(* packet-processing thread (_process_packets), the flow timeout checker   *)
(* (_flow_timeout_checker), the prediction worker (_prediction_worker) and *)
(* the caller of start()/stop().  time.time() is the integer clock `now`   *)
(* (seconds).                                                              *)
(***************************************************************************)
EXTENDS Integers, Sequences, FiniteSets, TLC

(***************************************************************************)
(* Bounds of the model.                                                    *)
(***************************************************************************)
\* packets the interface delivers to the sniff callback in one run
MaxPackets == 2
\* last clock value tracked; from then on time is no longer measured
MaxTime == 3
\* queue.Queue(maxsize=PACKET_BUFFER_SIZE); 1000 in config.py, scaled down
PACKET_BUFFER_SIZE == 1
\* deque(maxlen=1000) of flows_ready, scaled down
FLOWS_READY_MAXLEN == 1

(***************************************************************************)
(* Program constants.                                                      *)
(***************************************************************************)
FLOW_TIMEOUT == 2
MAX_FLOWS == 10
\* microseconds in a second: the factor 1_000_000 of the feature extractor
MICROS == 1000000
\* time.sleep(10) of the timeout checker
SWEEP_SLEEP == 10

(***************************************************************************)
(* Addresses are Python strings; they are compared as strings.  An address *)
(* is modelled by the digits of its last octet ("10.0.0.<octet>").         *)
(***************************************************************************)
IP_1 == <<1>>
IP_2 == <<2>>
IP_10 == <<1, 0>>

RECURSIVE StrLess(_, _)
\* Python str.__lt__ : lexicographic order on characters
StrLess(a, b) ==
    IF b = <<>> THEN FALSE
    ELSE IF a = <<>> THEN TRUE
    ELSE IF Head(a) < Head(b) THEN TRUE
    ELSE IF Head(a) > Head(b) THEN FALSE
    ELSE StrLess(Tail(a), Tail(b))

\* Python tuple order on (ip, port)
TupleLess(ip1, port1, ip2, port2) ==
    StrLess(ip1, ip2) \/ (ip1 = ip2 /\ port1 < port2)

NoKey == <<>>

\* packet.haslayer('TCP') / haslayer('UDP') as implied by the IP protocol
\* number (6 TCP, 17 UDP; 1 is ICMP, without ports)
HasTCP(p) == p.ip /\ p.proto = 6
HasUDP(p) == p.ip /\ p.proto = 17

\* mutant: the key is built in packet direction, without the ordering rule
ExtractFlowKey_Directional(p) ==
    IF p.ip
    THEN LET sp == IF HasTCP(p) \/ HasUDP(p) THEN p.sport ELSE 0
             dp == IF HasTCP(p) \/ HasUDP(p) THEN p.dport ELSE 0
         IN  <<p.src, p.dst, sp, dp, p.proto>>
    ELSE NoKey

\* LiveCapture._extract_flow_key
ExtractFlowKey(p) ==
    IF p.ip
    THEN LET sp == IF HasTCP(p) \/ HasUDP(p) THEN p.sport ELSE 0
             dp == IF HasTCP(p) \/ HasUDP(p) THEN p.dport ELSE 0
         IN  IF TupleLess(p.src, sp, p.dst, dp)
             THEN <<p.src, p.dst, sp, dp, p.proto>>
             ELSE <<p.dst, p.src, dp, sp, p.proto>>
    ELSE NoKey

\* PcapParser._extract_flow_key
PcapExtractFlowKey(p) ==
    IF p.ip
    THEN LET sp == IF HasTCP(p) \/ HasUDP(p) THEN p.sport ELSE 0
             dp == IF HasTCP(p) \/ HasUDP(p) THEN p.dport ELSE 0
         IN  IF TupleLess(p.src, sp, p.dst, dp)
             THEN <<p.src, p.dst, sp, dp, p.proto>>
             ELSE <<p.dst, p.src, dp, sp, p.proto>>
    ELSE NoKey

(***************************************************************************)
(* Packet headers delivered by the interface in the pipeline model.        *)
(***************************************************************************)
HdrFwd  == [ip |-> TRUE, src |-> IP_10, dst |-> IP_2, sport |-> 1000, dport |-> 80, proto |-> 6]
HdrBwd  == [ip |-> TRUE, src |-> IP_2, dst |-> IP_10, sport |-> 80, dport |-> 1000, proto |-> 6]
HdrUdp  == [ip |-> TRUE, src |-> IP_10, dst |-> IP_2, sport |-> 1000, dport |-> 80, proto |-> 17]
HdrArp  == [ip |-> FALSE, src |-> IP_10, dst |-> IP_2, sport |-> 0, dport |-> 0, proto |-> 0]
Headers == {HdrFwd, HdrBwd, HdrUdp, HdrArp}

\* no packet in hand
NoPacket == [id |-> 0, ip |-> FALSE, src |-> <<>>, dst |-> <<>>, sport |-> 0, dport |-> 0,
             proto |-> 0, time |-> 0]

\* headers for the flow-key resolver specification
KeyIPs == {IP_1, IP_2, IP_10}
KeyPorts == {80, 1000}
KeyHeaders ==
    [ip : {TRUE}, src : KeyIPs, dst : KeyIPs, sport : KeyPorts, dport : KeyPorts,
     proto : {6, 17, 1}] \cup {HdrArp}

VARIABLES
    now,                    \* time.time()
    is_capturing,           \* LiveCapture.is_capturing
    is_running,             \* LiveDetectionService.is_running
    packet_queue,           \* LiveCapture.packet_queue
    flow_table,             \* LiveCapture.flow_table, in dict insertion order
    flows_ready,            \* LiveCapture.flows_ready
    total_packets_captured, \* LiveCapture.total_packets_captured
    lock,                   \* LiveCapture.lock: "free" or its holder
    service_pc,             \* caller of start()/stop(): "new", "error", "started", "stopped"
    capture_pc,             \* capture_worker: "none", "sniff", "count", "done"
    proc_pc,                \* _process_packets: "none", "loop", "record", "done"
    proc_pkt,               \* packet taken from the queue, NoPacket if none
    checker_pc,             \* _flow_timeout_checker: "none", "loop", "copy", "delete", "sleep", "done"
    current_time,           \* local current_time of the checker
    flows_to_remove,        \* local flows_to_remove of the checker
    wake_time,              \* end of the checker's time.sleep(10)
    worker_pc,              \* _prediction_worker: "none", "loop", "process", "done"
    worker_flows,           \* local flows of the prediction worker
    alerts,                 \* results handed to data_manager.add_alert, by flow
    alert_types,            \* attack_type of those results, in the same order
    is_loaded,              \* Predictor.is_loaded
    outcomes,               \* history: how the classifier call of each processed flow went
    captured,               \* history: packets delivered to _packet_callback
    accepted,               \* history: packets put on packet_queue
    emitted,                \* history: CompletedFlows appended to flows_ready
    stop_at,                \* history: the counters when stop() was called
    sniff_failed,           \* history: sniff raised or ended
    failed_with,            \* history: the flow table when sniff raised or ended
    pf_loaded, pf_schema,   \* predict_flow specification: is_loaded, the fitted scaler,
    pf_features, pf_result, \* the feature mapping given and the result, NoResult before
    fx_flow, fx_features,   \* feature extraction specification: the flow, and what
                            \* extract_features_from_flow returned, NoFeatures before
    fx_again,               \* what a second call on the same flow returned
    dm_alerts,              \* DataManager.alerts
    dm_total_predictions,   \* DataManager.statistics['total_predictions']
    dm_attack_counts,       \* DataManager.statistics['attack_counts']
    ga_result,              \* the last call of get_recent_alerts: its arguments and
                            \* what it returned, NoAlerts before
    calls,                  \* sessions specification: the start() calls that returned True
                            \* and the stop() calls, in order
    capture_threads,        \* the capture threads created, in order: position and session
    processing_threads,     \* the positions of the packet-processing threads created
    timeout_threads,        \* the positions of the timeout checker threads created
    prediction_threads,     \* the positions of the prediction threads created
    fed_by,                 \* history: the session of the thread that put each accepted packet
    key_p1, key_p2,         \* flow-key resolver specification: the two packets
    key_live, key_pcap      \* and the keys resolved for them, <<>> before

pipeVars == <<now, is_capturing, is_running, packet_queue, flow_table, flows_ready,
              total_packets_captured, lock, service_pc, capture_pc, proc_pc, proc_pkt,
              checker_pc, current_time, flows_to_remove, wake_time, worker_pc,
              worker_flows, alerts, captured, accepted, emitted, stop_at, sniff_failed,
              failed_with, alert_types, is_loaded, outcomes>>
keyVars == <<key_p1, key_p2, key_live, key_pcap>>
predictVars == <<pf_loaded, pf_schema, pf_features, pf_result>>
extractVars == <<fx_flow, fx_features, fx_again>>
alertVars == <<dm_alerts, dm_total_predictions, dm_attack_counts, ga_result>>
sessionVars == <<calls, capture_threads, processing_threads, timeout_threads,
                 prediction_threads, fed_by>>
funVars == <<keyVars, predictVars, extractVars, alertVars, sessionVars>>
vars == <<pipeVars, funVars>>

\* LiveCapture.__init__ and LiveDetectionService.__init__
InitPipe ==
    /\ now = 0
    /\ is_capturing = FALSE
    /\ is_running = FALSE
    /\ packet_queue = <<>>
    /\ flow_table = <<>>
    /\ flows_ready = <<>>
    /\ total_packets_captured = 0
    /\ lock = "free"
    /\ service_pc = "new"
    /\ capture_pc = "none"
    /\ proc_pc = "none"
    /\ proc_pkt = NoPacket
    /\ checker_pc = "none"
    /\ current_time = 0
    /\ flows_to_remove = {}
    /\ wake_time = 0
    /\ worker_pc = "none"
    /\ worker_flows = <<>>
    /\ alerts = <<>>
    /\ captured = <<>>
    /\ accepted = <<>>
    /\ emitted = <<>>
    /\ stop_at = [captured |-> 0, flows |-> 0, emitted |-> 0]
    /\ sniff_failed = FALSE
    /\ failed_with = <<>>
    /\ alert_types = <<>>
    /\ is_loaded = FALSE
    /\ outcomes = <<>>

\* no result of predict_flow yet
NoResult == [attack_type |-> "none", row |-> <<>>]

\* no flow, and no features extracted yet
NoFlow == [flow_key |-> NoKey, packets |-> <<>>, start_time |-> 0, end_time |-> 0]
NoFeatures == [done |-> FALSE, none |-> FALSE, items |-> <<>>]

\* the specifications of the pure functions, at rest
IdleKey ==
    /\ key_p1 = HdrArp
    /\ key_p2 = HdrArp
    /\ key_live = <<>>
    /\ key_pcap = <<>>

IdlePredict ==
    /\ pf_loaded = FALSE
    /\ pf_schema = [has_names |-> FALSE, names |-> <<>>]
    /\ pf_features = <<>>
    /\ pf_result = NoResult

IdleExtract ==
    /\ fx_flow = NoFlow
    /\ fx_features = NoFeatures
    /\ fx_again = NoFeatures

\* DataManager.__init__; no call of get_recent_alerts yet
AttackTypes == {"Benign", "DDoS", "Brute Force", "SQL Injection"}
NoAlerts == [done |-> FALSE, limit |-> 0, attack_type |-> "", alerts |-> <<>>]

IdleAlerts ==
    /\ dm_alerts = <<>>
    /\ dm_total_predictions = 0
    /\ dm_attack_counts = [t \in AttackTypes |-> 0]
    /\ ga_result = NoAlerts

\* no start() or stop() was called, no thread was created
IdleSessions ==
    /\ calls = <<>>
    /\ capture_threads = <<>>
    /\ processing_threads = <<>>
    /\ timeout_threads = <<>>
    /\ prediction_threads = <<>>
    /\ fed_by = <<>>

Init ==
    /\ InitPipe
    /\ IdleKey
    /\ IdlePredict
    /\ IdleExtract
    /\ IdleAlerts
    /\ IdleSessions

(***************************************************************************)
(* The clock.                                                              *)
(***************************************************************************)
Tick ==
    /\ service_pc \in {"started", "stopped"}
    /\ now < MaxTime
    /\ now' = now + 1
    /\ UNCHANGED <<is_capturing, is_running, packet_queue, flow_table, flows_ready,
                   total_packets_captured, lock, service_pc, capture_pc, proc_pc, proc_pkt,
                   checker_pc, current_time, flows_to_remove, wake_time, worker_pc,
                   worker_flows, alerts, captured, accepted, emitted, stop_at, sniff_failed>>
    /\ UNCHANGED <<failed_with, funVars>>
    /\ UNCHANGED <<alert_types, is_loaded, outcomes>>

\* mutant: the lock is not taken
CanAcquire_NoLock == TRUE

\* `with self.lock:` can be entered
CanAcquire == lock = "free"

(***************************************************************************)
(* LiveDetectionService.start: load the model, select the interface,       *)
(* start_capture (three threads), start the prediction thread.  The load   *)
(* sets is_loaded at its end; a load that raises leaves it as it was.      *)
(* start() returns False where service_pc becomes "error".                 *)
(***************************************************************************)
\* mutant: the capture is started before the interface is selected
Start_CaptureFirst(outcome) ==
    /\ service_pc \in {"new", "error"}
    /\ IF outcome # "model_error"
       THEN /\ is_capturing' = TRUE
            /\ is_running' = (outcome = "ok")
            /\ proc_pc' = "loop"
            /\ checker_pc' = "loop"
            /\ capture_pc' = "sniff"
            /\ worker_pc' = IF outcome = "ok" THEN "loop" ELSE worker_pc
            /\ service_pc' = IF outcome = "ok" THEN "started" ELSE "error"
       ELSE /\ service_pc = "new"
            /\ service_pc' = "error"
            /\ UNCHANGED <<is_capturing, is_running, proc_pc, checker_pc, capture_pc, worker_pc>>
    /\ UNCHANGED <<now, packet_queue, flow_table, flows_ready, total_packets_captured, lock,
                   proc_pkt, current_time, flows_to_remove, wake_time, worker_flows, alerts,
                   captured, accepted, emitted, stop_at, sniff_failed>>
    /\ UNCHANGED <<failed_with, funVars>>
    /\ is_loaded' = (is_loaded \/ outcome # "model_error")
    /\ UNCHANGED <<alert_types, outcomes>>

Start(outcome) ==
    /\ service_pc \in {"new", "error"}
    /\ IF outcome = "ok"
       THEN /\ is_capturing' = TRUE
            /\ is_running' = TRUE
            /\ proc_pc' = "loop"
            /\ checker_pc' = "loop"
            /\ capture_pc' = "sniff"
            /\ worker_pc' = "loop"
            /\ service_pc' = "started"
       ELSE /\ service_pc = "new"
            /\ service_pc' = "error"
            /\ UNCHANGED <<is_capturing, is_running, proc_pc, checker_pc, capture_pc, worker_pc>>
    /\ UNCHANGED <<now, packet_queue, flow_table, flows_ready, total_packets_captured, lock,
                   proc_pkt, current_time, flows_to_remove, wake_time, worker_flows, alerts,
                   captured, accepted, emitted, stop_at, sniff_failed>>
    /\ UNCHANGED <<failed_with, funVars>>
    /\ is_loaded' = (is_loaded \/ outcome # "model_error")
    /\ UNCHANGED <<alert_types, outcomes>>

(***************************************************************************)
(* LiveDetectionService.stop and LiveCapture.stop_capture.  The two joins  *)
(* (timeout 5 s each) change no state: they return when the thread has     *)
(* ended or the timeout has passed.                                        *)
(***************************************************************************)
Stop ==
    /\ service_pc = "started"
    /\ service_pc' = "stopped"
    /\ is_running' = FALSE
    /\ is_capturing' = FALSE
    /\ stop_at' = [captured |-> Len(captured), flows |-> Len(flow_table),
                    emitted |-> Len(emitted)]
    /\ UNCHANGED <<now, packet_queue, flow_table, flows_ready, total_packets_captured, lock,
                   capture_pc, proc_pc, proc_pkt, checker_pc, current_time, flows_to_remove,
                   wake_time, worker_pc, worker_flows, alerts, captured, accepted, emitted,
                   sniff_failed>>
    /\ UNCHANGED <<failed_with, funVars>>
    /\ UNCHANGED <<alert_types, is_loaded, outcomes>>

(***************************************************************************)
(* capture_worker: sniff(prn=self._packet_callback, count=0, timeout=None) *)
(***************************************************************************)
\* a packet of the interface, stamped with its capture time
MkPacket(h) ==
    [id |-> Len(captured) + 1, ip |-> h.ip, src |-> h.src, dst |-> h.dst,
     sport |-> h.sport, dport |-> h.dport, proto |-> h.proto, time |-> now]

\* mutant: the packet is put without the test of full()
PacketCallback_NoFullCheck(h) ==
    /\ capture_pc = "sniff"
    /\ Len(captured) < MaxPackets
    /\ LET p == MkPacket(h) IN
       /\ captured' = Append(captured, p)
       /\ packet_queue' = Append(packet_queue, p)
       /\ accepted' = Append(accepted, p)
       /\ capture_pc' = "count"
    /\ UNCHANGED <<now, is_capturing, is_running, flow_table, flows_ready,
                   total_packets_captured, lock, service_pc, proc_pc, proc_pkt, checker_pc,
                   current_time, flows_to_remove, wake_time, worker_pc, worker_flows, alerts,
                   emitted, stop_at, sniff_failed>>
    /\ UNCHANGED <<failed_with, funVars>>
    /\ UNCHANGED <<alert_types, is_loaded, outcomes>>

\* _packet_callback, up to the put
PacketCallback(h) ==
    /\ capture_pc = "sniff"
    /\ Len(captured) < MaxPackets
    /\ LET p == MkPacket(h) IN
       /\ captured' = Append(captured, p)
       /\ IF Len(packet_queue) < PACKET_BUFFER_SIZE
          THEN /\ packet_queue' = Append(packet_queue, p)
               /\ accepted' = Append(accepted, p)
               /\ capture_pc' = "count"
          ELSE UNCHANGED <<packet_queue, accepted, capture_pc>>
    /\ UNCHANGED <<now, is_capturing, is_running, flow_table, flows_ready,
                   total_packets_captured, lock, service_pc, proc_pc, proc_pkt, checker_pc,
                   current_time, flows_to_remove, wake_time, worker_pc, worker_flows, alerts,
                   emitted, stop_at, sniff_failed>>
    /\ UNCHANGED <<failed_with, funVars>>
    /\ UNCHANGED <<alert_types, is_loaded, outcomes>>

\* _packet_callback: with self.lock: self.total_packets_captured += 1
CallbackCount ==
    /\ capture_pc = "count"
    /\ CanAcquire
    /\ total_packets_captured' = total_packets_captured + 1
    /\ capture_pc' = "sniff"
    /\ UNCHANGED <<now, is_capturing, is_running, packet_queue, flow_table, flows_ready, lock,
                   service_pc, proc_pc, proc_pkt, checker_pc, current_time, flows_to_remove,
                   wake_time, worker_pc, worker_flows, alerts, captured, accepted, emitted,
                   stop_at, sniff_failed>>
    /\ UNCHANGED <<failed_with, funVars>>
    /\ UNCHANGED <<alert_types, is_loaded, outcomes>>

\* capture_worker: sniff raises or returns; finally: self.is_capturing = False
SniffEnds ==
    /\ capture_pc = "sniff"
    /\ capture_pc' = "done"
    /\ is_capturing' = FALSE
    /\ sniff_failed' = TRUE
    /\ UNCHANGED <<now, is_running, packet_queue, flow_table, flows_ready,
                   total_packets_captured, lock, service_pc, proc_pc, proc_pkt, checker_pc,
                   current_time, flows_to_remove, wake_time, worker_pc, worker_flows, alerts,
                   captured, accepted, emitted, stop_at>>
    /\ failed_with' = flow_table
    /\ UNCHANGED funVars
    /\ UNCHANGED <<alert_types, is_loaded, outcomes>>

(***************************************************************************)
(* _process_packets                                                        *)
(***************************************************************************)
\* index of the entry of key k in the flow table, 0 if there is none
FlowIndex(table, k) ==
    IF \E i \in 1..Len(table) : table[i].flow_key = k
    THEN CHOOSE i \in 1..Len(table) : table[i].flow_key = k
    ELSE 0

\* mutant: the packet is put in front of the flow's packets
RecordPacket_Prepend(table, k, p, t) ==
    LET i == FlowIndex(table, k) IN
    IF i = 0
    THEN Append(table, [flow_key |-> k, packets |-> <<p>>, start_time |-> t, last_seen |-> t])
    ELSE [table EXCEPT ![i].last_seen = t, ![i].packets = <<p>> \o @]

\* the body of `with self.lock:` in _process_packets (defaultdict entry,
\* start_time if None, last_seen, append)
RecordPacket(table, k, p, t) ==
    LET i == FlowIndex(table, k) IN
    IF i = 0
    THEN Append(table, [flow_key |-> k, packets |-> <<p>>, start_time |-> t, last_seen |-> t])
    ELSE [table EXCEPT ![i].last_seen = t, ![i].packets = Append(@, p)]

\* mutant: a packet without flow key is not skipped
ProcGet_NoSkip ==
    /\ proc_pc = "loop"
    /\ packet_queue # <<>>
    /\ packet_queue' = Tail(packet_queue)
    /\ proc_pc' = "record"
    /\ proc_pkt' = Head(packet_queue)
    /\ UNCHANGED <<now, is_capturing, is_running, flow_table, flows_ready,
                   total_packets_captured, lock, service_pc, capture_pc, checker_pc,
                   current_time, flows_to_remove, wake_time, worker_pc, worker_flows, alerts,
                   captured, accepted, emitted, stop_at, sniff_failed>>
    /\ UNCHANGED <<failed_with, funVars>>
    /\ UNCHANGED <<alert_types, is_loaded, outcomes>>

\* while condition true, packet_queue.get returns a packet; a packet without
\* flow key is skipped (continue)
ProcGet ==
    /\ proc_pc = "loop"
    /\ packet_queue # <<>>
    /\ packet_queue' = Tail(packet_queue)
    /\ IF ExtractFlowKey(Head(packet_queue)) = NoKey
       THEN UNCHANGED <<proc_pc, proc_pkt>>
       ELSE /\ proc_pc' = "record"
            /\ proc_pkt' = Head(packet_queue)
    /\ UNCHANGED <<now, is_capturing, is_running, flow_table, flows_ready,
                   total_packets_captured, lock, service_pc, capture_pc, checker_pc,
                   current_time, flows_to_remove, wake_time, worker_pc, worker_flows, alerts,
                   captured, accepted, emitted, stop_at, sniff_failed>>
    /\ UNCHANGED <<failed_with, funVars>>
    /\ UNCHANGED <<alert_types, is_loaded, outcomes>>

\* mutant: last_seen is the capture time of the packet, start_time the clock
ProcRecord_CaptureStamp ==
    /\ proc_pc = "record"
    /\ CanAcquire
    /\ LET k == ExtractFlowKey(proc_pkt)
           i == FlowIndex(flow_table, k)
       IN  flow_table' =
               IF i = 0
               THEN Append(flow_table, [flow_key |-> k, packets |-> <<proc_pkt>>,
                                        start_time |-> now, last_seen |-> proc_pkt.time])
               ELSE [flow_table EXCEPT ![i].last_seen = proc_pkt.time,
                                       ![i].packets = Append(@, proc_pkt)]
    /\ proc_pkt' = NoPacket
    /\ proc_pc' = "loop"
    /\ UNCHANGED <<now, is_capturing, is_running, packet_queue, flows_ready,
                   total_packets_captured, lock, service_pc, capture_pc, checker_pc,
                   current_time, flows_to_remove, wake_time, worker_pc, worker_flows, alerts,
                   captured, accepted, emitted, stop_at, sniff_failed>>
    /\ UNCHANGED <<failed_with, funVars>>
    /\ UNCHANGED <<alert_types, is_loaded, outcomes>>

\* with self.lock: update the flow table
ProcRecord ==
    /\ proc_pc = "record"
    /\ CanAcquire
    /\ flow_table' = RecordPacket(flow_table, ExtractFlowKey(proc_pkt), proc_pkt, now)
    /\ proc_pkt' = NoPacket
    /\ proc_pc' = "loop"
    /\ UNCHANGED <<now, is_capturing, is_running, packet_queue, flows_ready,
                   total_packets_captured, lock, service_pc, capture_pc, checker_pc,
                   current_time, flows_to_remove, wake_time, worker_pc, worker_flows, alerts,
                   captured, accepted, emitted, stop_at, sniff_failed>>
    /\ UNCHANGED <<failed_with, funVars>>
    /\ UNCHANGED <<alert_types, is_loaded, outcomes>>

\* mutant: the thread ends as soon as capture is off
ProcExit_NoDrain ==
    /\ proc_pc = "loop"
    /\ ~is_capturing
    /\ proc_pc' = "done"
    /\ UNCHANGED <<now, is_capturing, is_running, packet_queue, flow_table, flows_ready,
                   total_packets_captured, lock, service_pc, capture_pc, proc_pkt, checker_pc,
                   current_time, flows_to_remove, wake_time, worker_pc, worker_flows, alerts,
                   captured, accepted, emitted, stop_at, sniff_failed>>
    /\ UNCHANGED <<failed_with, funVars>>
    /\ UNCHANGED <<alert_types, is_loaded, outcomes>>

\* the while condition is false: not capturing and the queue is empty
ProcExit ==
    /\ proc_pc = "loop"
    /\ ~is_capturing
    /\ packet_queue = <<>>
    /\ proc_pc' = "done"
    /\ UNCHANGED <<now, is_capturing, is_running, packet_queue, flow_table, flows_ready,
                   total_packets_captured, lock, service_pc, capture_pc, proc_pkt, checker_pc,
                   current_time, flows_to_remove, wake_time, worker_pc, worker_flows, alerts,
                   captured, accepted, emitted, stop_at, sniff_failed>>
    /\ UNCHANGED <<failed_with, funVars>>
    /\ UNCHANGED <<alert_types, is_loaded, outcomes>>

(***************************************************************************)
(* _flow_timeout_checker                                                   *)
(***************************************************************************)
\* mutant: a flow idle exactly FLOW_TIMEOUT is evicted too
TimedOut_Inclusive(cur, last) == cur - last >= FLOW_TIMEOUT

\* time_since_last_packet > FLOW_TIMEOUT
TimedOut(cur, last) == cur - last > FLOW_TIMEOUT

\* deque(maxlen=FLOWS_READY_MAXLEN).append
DequeAppend(q, x) ==
    IF Len(q) >= FLOWS_READY_MAXLEN THEN Append(Tail(q), x) ELSE Append(q, x)

CompletedFlow(f) ==
    [flow_key |-> f.flow_key, packets |-> f.packets,
     start_time |-> f.start_time, end_time |-> f.last_seen]

\* the flows the sweep completes, in the order of the for loop
TimedOutFlows(table, cur) ==
    SelectSeq(table, LAMBDA f : TimedOut(cur, f.last_seen))

RECURSIVE AppendAll(_, _)
\* flows_ready.append for each flow of fs
AppendAll(q, fs) ==
    IF fs = <<>> THEN q ELSE AppendAll(DequeAppend(q, CompletedFlow(Head(fs))), Tail(fs))

RECURSIVE CompletedAll(_)
CompletedAll(fs) ==
    IF fs = <<>> THEN <<>> ELSE <<CompletedFlow(Head(fs))>> \o CompletedAll(Tail(fs))

\* while self.is_capturing: current_time = time.time()
CheckerLoop ==
    /\ checker_pc = "loop"
    /\ IF is_capturing
       THEN /\ checker_pc' = "copy"
            /\ current_time' = now
       ELSE /\ checker_pc' = "done"
            /\ UNCHANGED current_time
    /\ UNCHANGED <<now, is_capturing, is_running, packet_queue, flow_table, flows_ready,
                   total_packets_captured, lock, service_pc, capture_pc, proc_pc, proc_pkt,
                   flows_to_remove, wake_time, worker_pc, worker_flows, alerts, captured,
                   accepted, emitted, stop_at, sniff_failed>>
    /\ UNCHANGED <<failed_with, funVars>>
    /\ UNCHANGED <<alert_types, is_loaded, outcomes>>

\* with self.lock: the for loop over flow_table.items()
CheckerCopy ==
    /\ checker_pc = "copy"
    /\ CanAcquire
    /\ lock' = "checker"
    /\ LET out == TimedOutFlows(flow_table, current_time) IN
       /\ flows_ready' = AppendAll(flows_ready, out)
       /\ emitted' = emitted \o CompletedAll(out)
       /\ flows_to_remove' = {out[i].flow_key : i \in 1..Len(out)}
    /\ checker_pc' = "delete"
    /\ UNCHANGED <<now, is_capturing, is_running, packet_queue, flow_table,
                   total_packets_captured, service_pc, capture_pc, proc_pc, proc_pkt,
                   current_time, wake_time, worker_pc, worker_flows, alerts, captured,
                   accepted, stop_at, sniff_failed>>
    /\ UNCHANGED <<failed_with, funVars>>
    /\ UNCHANGED <<alert_types, is_loaded, outcomes>>

\* mutant: the completed flows stay in the flow table
CheckerDelete_KeepsFlows ==
    /\ checker_pc = "delete"
    /\ flow_table' = flow_table
    /\ flows_to_remove' = {}
    /\ lock' = "free"
    /\ wake_time' = now + SWEEP_SLEEP
    /\ current_time' = 0
    /\ checker_pc' = "sleep"
    /\ UNCHANGED <<now, is_capturing, is_running, packet_queue, flows_ready,
                   total_packets_captured, service_pc, capture_pc, proc_pc, proc_pkt,
                   worker_pc, worker_flows, alerts, captured, accepted,
                   emitted, stop_at, sniff_failed>>
    /\ UNCHANGED <<failed_with, funVars>>
    /\ UNCHANGED <<alert_types, is_loaded, outcomes>>

\* the loop of del self.flow_table[flow_key], the end of the with block,
\* and the call of time.sleep(10)
CheckerDelete ==
    /\ checker_pc = "delete"
    /\ flow_table' = SelectSeq(flow_table, LAMBDA f : f.flow_key \notin flows_to_remove)
    /\ flows_to_remove' = {}
    /\ lock' = "free"
    /\ wake_time' = now + SWEEP_SLEEP
    /\ current_time' = 0
    /\ checker_pc' = "sleep"
    /\ UNCHANGED <<now, is_capturing, is_running, packet_queue, flows_ready,
                   total_packets_captured, service_pc, capture_pc, proc_pc, proc_pkt,
                   worker_pc, worker_flows, alerts, captured, accepted,
                   emitted, stop_at, sniff_failed>>
    /\ UNCHANGED <<failed_with, funVars>>
    /\ UNCHANGED <<alert_types, is_loaded, outcomes>>

\* time.sleep(10) returns
CheckerWake ==
    /\ checker_pc = "sleep"
    /\ now >= wake_time \/ now = MaxTime
    /\ wake_time' = 0
    /\ checker_pc' = "loop"
    /\ UNCHANGED <<now, is_capturing, is_running, packet_queue, flow_table, flows_ready,
                   total_packets_captured, lock, service_pc, capture_pc, proc_pc, proc_pkt,
                   current_time, flows_to_remove, worker_pc, worker_flows, alerts,
                   captured, accepted, emitted, stop_at, sniff_failed>>
    /\ UNCHANGED <<failed_with, funVars>>
    /\ UNCHANGED <<alert_types, is_loaded, outcomes>>

(***************************************************************************)
(* _prediction_worker and LiveCapture.get_completed_flows                  *)
(***************************************************************************)
Min(a, b) == IF a < b THEN a ELSE b

\* how the scaler, PCA and model calls inside predict_flow's try block can go
ClassifierOutcomes == {"ok", "transform_error"}

\* the flows get_completed_flows(max_flows) pops from the left
PoppedFlows(q, max_flows) == SubSeq(q, 1, Min(max_flows, Len(q)))

\* flows_ready after get_completed_flows(max_flows)
RemainingFlows(q, max_flows) == SubSeq(q, Min(max_flows, Len(q)) + 1, Len(q))

\* mutant: the worker keeps the capture lock while it classifies its batch
WorkerGet_KeepsLock ==
    /\ worker_pc = "loop"
    /\ is_running
    /\ CanAcquire
    /\ flows_ready # <<>>
    /\ worker_flows' = PoppedFlows(flows_ready, MAX_FLOWS)
    /\ flows_ready' = RemainingFlows(flows_ready, MAX_FLOWS)
    /\ worker_pc' = "process"
    /\ lock' = "worker"
    /\ UNCHANGED <<now, is_capturing, is_running, packet_queue, flow_table,
                   total_packets_captured, service_pc, capture_pc, proc_pc, proc_pkt,
                   checker_pc, current_time, flows_to_remove, wake_time, alerts, captured,
                   accepted, emitted, stop_at, sniff_failed>>
    /\ UNCHANGED <<failed_with, funVars>>
    /\ UNCHANGED <<alert_types, is_loaded, outcomes>>

\* while self.is_running: flows = get_completed_flows(max_flows=10);
\* with no flow the worker sleeps a second and tries again
WorkerGet ==
    /\ worker_pc = "loop"
    /\ is_running
    /\ CanAcquire
    /\ flows_ready # <<>>
    /\ worker_flows' = PoppedFlows(flows_ready, MAX_FLOWS)
    /\ flows_ready' = RemainingFlows(flows_ready, MAX_FLOWS)
    /\ worker_pc' = "process"
    /\ UNCHANGED <<now, is_capturing, is_running, packet_queue, flow_table,
                   total_packets_captured, lock, service_pc, capture_pc, proc_pc, proc_pkt,
                   checker_pc, current_time, flows_to_remove, wake_time, alerts, captured,
                   accepted, emitted, stop_at, sniff_failed>>
    /\ UNCHANGED <<failed_with, funVars>>
    /\ UNCHANGED <<alert_types, is_loaded, outcomes>>

\* mutant: predict_flow without its try block, the exception reaches the worker
PredictResult_NoTry(loaded, raised) ==
    IF ~loaded \/ raised THEN "raise" ELSE "Classified"

\* what Predictor.predict_flow gives when its transform and model calls raise
\* (raised) or not: "raise" for the ValueError of a predictor that is not
\* loaded, else the attack_type of the result, 'Error' for the error result
PredictResult(loaded, raised) ==
    IF ~loaded THEN "raise"
    ELSE IF raised THEN "Error"
    ELSE "Classified"

\* one iteration of `for flow_data in flows`: extract the features (never None
\* for a completed flow, which has a packet), predict_flow, add_alert and
\* broadcast_alert.  An exception of predict_flow, and the KeyError of
\* result['is_attack'] on an error result after add_alert, are caught by the
\* inner except, which prints and goes on with the next flow.
WorkerProcess(outcome) ==
    /\ worker_pc = "process"
    /\ LET result == PredictResult(is_loaded, outcome = "transform_error") IN
       IF result = "raise"
       THEN UNCHANGED <<alerts, alert_types>>
       ELSE /\ alerts' = Append(alerts, Head(worker_flows))
            /\ alert_types' = Append(alert_types, result)
    /\ outcomes' = Append(outcomes, outcome)
    /\ worker_flows' = Tail(worker_flows)
    /\ worker_pc' = IF Len(worker_flows) = 1 THEN "loop" ELSE "process"
    /\ UNCHANGED <<now, is_capturing, is_running, packet_queue, flow_table, flows_ready,
                   total_packets_captured, lock, service_pc, capture_pc, proc_pc, proc_pkt,
                   checker_pc, current_time, flows_to_remove, wake_time, captured, accepted,
                   emitted, stop_at, sniff_failed>>
    /\ UNCHANGED <<failed_with, funVars, is_loaded>>

\* the while condition is false
WorkerExit ==
    /\ worker_pc = "loop"
    /\ ~is_running
    /\ worker_pc' = "done"
    /\ UNCHANGED <<now, is_capturing, is_running, packet_queue, flow_table, flows_ready,
                   total_packets_captured, lock, service_pc, capture_pc, proc_pc, proc_pkt,
                   checker_pc, current_time, flows_to_remove, wake_time, worker_flows, alerts,
                   captured, accepted, emitted, stop_at, sniff_failed>>
    /\ UNCHANGED <<failed_with, funVars>>
    /\ UNCHANGED <<alert_types, is_loaded, outcomes>>

(***************************************************************************)
(* LiveCapture.get_capture_status, without the interface name               *)
(***************************************************************************)
GetCaptureStatus ==
    [is_capturing |-> is_capturing,
     total_packets |-> total_packets_captured,
     active_flows |-> Len(flow_table),
     completed_flows |-> Len(flows_ready),
     queue_size |-> Len(packet_queue)]

(***************************************************************************)
(* The pipeline specification.                                             *)
(***************************************************************************)
ProcStep == ProcGet \/ ProcRecord \/ ProcExit
CheckerStep == CheckerLoop \/ CheckerCopy \/ CheckerDelete \/ CheckerWake
WorkerStep == WorkerGet \/ (\E o \in ClassifierOutcomes : WorkerProcess(o)) \/ WorkerExit

Next ==
    \/ Tick
    \/ \E o \in {"ok", "model_error", "interface_error"} : Start(o)
    \/ Stop
    \/ \E h \in Headers : PacketCallback(h)
    \/ CallbackCount
    \/ SniffEnds
    \/ ProcGet
    \/ ProcRecord
    \/ ProcExit
    \/ CheckerLoop
    \/ CheckerCopy
    \/ CheckerDelete
    \/ CheckerWake
    \/ WorkerGet
    \/ \E o \in ClassifierOutcomes : WorkerProcess(o)
    \/ WorkerExit

Spec == Init /\ [][Next]_vars

(***************************************************************************)
(* The pipeline under the scheduling the runtime guarantees: every thread  *)
(* that can take a step eventually takes one, and the clock advances.  The *)
(* interface, the caller of stop() and a failure of sniff are free.        *)
(***************************************************************************)
FairSpec ==
    /\ Init
    /\ [][Next]_vars
    /\ WF_vars(Tick)
    /\ WF_vars(CallbackCount)
    /\ WF_vars(ProcStep)
    /\ WF_vars(CheckerStep)
    /\ WF_vars(WorkerStep)

(***************************************************************************)
(* The flow-key resolver on its own: two packets are drawn, and each       *)
(* implementation resolves the key of both.                                *)
(***************************************************************************)
InitKey ==
    /\ InitPipe
    /\ IdlePredict
    /\ IdleExtract
    /\ IdleAlerts
    /\ IdleSessions
    /\ key_p1 \in KeyHeaders
    /\ key_p2 \in KeyHeaders
    /\ key_live = <<>>
    /\ key_pcap = <<>>

\* LiveCapture._extract_flow_key applied to both packets
ResolveLive ==
    /\ key_live = <<>>
    /\ key_live' = <<ExtractFlowKey(key_p1), ExtractFlowKey(key_p2)>>
    /\ UNCHANGED <<key_p1, key_p2, key_pcap, pipeVars, predictVars, extractVars, alertVars, sessionVars>>

\* PcapParser._extract_flow_key applied to both packets
ResolvePcap ==
    /\ key_pcap = <<>>
    /\ key_pcap' = <<PcapExtractFlowKey(key_p1), PcapExtractFlowKey(key_p2)>>
    /\ UNCHANGED <<key_p1, key_p2, key_live, pipeVars, predictVars, extractVars, alertVars, sessionVars>>

NextKey == ResolveLive \/ ResolvePcap

SpecKey == InitKey /\ [][NextKey]_vars

(***************************************************************************)
(* Predictor.predict_flow on its own.  A feature mapping is a dict: here   *)
(* the sequence of its <<name, value>> items in insertion order, which is  *)
(* the column order of pd.DataFrame([flow_features]).  The scaler was      *)
(* fitted on the columns `names`; it has feature_names_in_ when it was     *)
(* fitted on a DataFrame.                                                  *)
(***************************************************************************)
PfMaxFeatures == 3
SchemaNames == {"a", "b", "c"}
InputNames == {"a", "b", "c", "d"}
InputValues == {1, 2}

Distinct(q) == \A i, j \in 1..Len(q) : i # j => q[i] # q[j]

\* the sequences without repetition of at most n elements of S
DistinctSeqs(S, n) == {q \in UNION {[1..k -> S] : k \in 0..n} : Distinct(q)}

\* the dicts with keys in S, at most n items
Mappings(S, n) ==
    UNION {{[i \in 1..Len(q) |-> <<q[i], v[i]>>] : v \in [1..Len(q) -> InputValues]} :
              q \in DistinctSeqs(S, n)}

Columns(row) == [i \in 1..Len(row) |-> row[i][1]]
HasColumn(row, name) == \E i \in 1..Len(row) : row[i][1] = name
ValueOf(row, name) == row[CHOOSE i \in 1..Len(row) : row[i][1] = name][2]

RECURSIVE PadMissing(_, _)
\* for feat in expected_features: if feat not in features_df.columns:
\*     features_df[feat] = 0
PadMissing(row, expected) ==
    IF expected = <<>> THEN row
    ELSE PadMissing(IF HasColumn(row, Head(expected)) THEN row
                    ELSE Append(row, <<Head(expected), 0>>),
                    Tail(expected))

\* mutant: the columns are not put in the order of the schema
Reorder_Kept(row, expected) == row

\* features_df = features_df[expected_features]
Reorder(row, expected) == [i \in 1..Len(expected) |-> <<expected[i], ValueOf(row, expected[i])>>]

\* the row handed to scaler.transform
PreparedRow(scaler, features) ==
    IF scaler.has_names
    THEN Reorder(PadMissing(features, scaler.names), scaler.names)
    ELSE features

\* scaler.transform accepts a row with as many columns as it was fitted on
\* and, when it was fitted with names, with these names in this order
TransformAccepts(row, scaler) ==
    /\ Len(row) = Len(scaler.names)
    /\ scaler.has_names => Columns(row) = scaler.names

\* predict_flow; PCA and the model take what the scaler gives
PredictFlow(loaded, scaler, features) ==
    IF ~loaded
    THEN [attack_type |-> "raise", row |-> <<>>]
    ELSE LET row == PreparedRow(scaler, features) IN
         [attack_type |-> PredictResult(loaded, ~TransformAccepts(row, scaler)),
          row |-> row]

InitPredict ==
    /\ InitPipe
    /\ IdleKey
    /\ IdleExtract
    /\ IdleAlerts
    /\ IdleSessions
    /\ pf_loaded \in BOOLEAN
    /\ pf_schema \in [has_names : BOOLEAN, names : DistinctSeqs(SchemaNames, 3) \ {<<>>}]
    /\ pf_features \in Mappings(InputNames, PfMaxFeatures)
    /\ pf_result = NoResult

PredictFlowCall ==
    /\ pf_result = NoResult
    /\ pf_result' = PredictFlow(pf_loaded, pf_schema, pf_features)
    /\ UNCHANGED <<pf_loaded, pf_schema, pf_features, pipeVars, keyVars, extractVars, alertVars, sessionVars>>

NextPredict == PredictFlowCall

SpecPredict == InitPredict /\ [][NextPredict]_vars

(***************************************************************************)
(* FlowFeatureExtractor.  A feature value is an exact number              *)
(*     unit * num / den,   or   unit * sqrt(num / den) when root,          *)
(* so that means, rates and standard deviations need no rounding; den = 0  *)
(* stands for the nan of a division by zero.                               *)
(***************************************************************************)
Num(n) == [num |-> n, den |-> 1, root |-> FALSE, unit |-> 1]
Ratio(n, d) == [num |-> n, den |-> d, root |-> FALSE, unit |-> 1]
IsZero(v) == v.num = 0 /\ v.den > 0

RECURSIVE Sum(_)
Sum(xs) == IF xs = <<>> THEN 0 ELSE Head(xs) + Sum(Tail(xs))

RECURSIVE MaxOf(_)
MaxOf(xs) ==
    IF Len(xs) = 1 THEN xs[1]
    ELSE LET r == MaxOf(Tail(xs)) IN IF Head(xs) > r THEN Head(xs) ELSE r

RECURSIVE MinOf(_)
MinOf(xs) ==
    IF Len(xs) = 1 THEN xs[1]
    ELSE LET r == MinOf(Tail(xs)) IN IF Head(xs) < r THEN Head(xs) ELSE r

\* np.mean
Mean(xs) == Ratio(Sum(xs), Len(xs))

\* n * sum of squares - square of the sum, of the values xs counted in units u:
\* the population variance of xs is u * u * SquareDev / (n * n)
SquareDev(xs, u) ==
    LET ys == [i \in 1..Len(xs) |-> xs[i] \div u]
        sq == [i \in 1..Len(ys) |-> ys[i] * ys[i]]
    IN  Len(ys) * Sum(sq) - Sum(ys) * Sum(ys)

\* np.var
Var(xs) == [num |-> SquareDev(xs, 1), den |-> Len(xs) * Len(xs), root |-> FALSE, unit |-> 1]

\* mutant: the sample standard deviation (ddof = 1)
Std_Sample(xs, u) ==
    [num |-> SquareDev(xs, u), den |-> Len(xs) * (Len(xs) - 1), root |-> TRUE, unit |-> u]

\* np.std of values that are multiples of u
Std(xs, u) ==
    [num |-> SquareDev(xs, u), den |-> Len(xs) * Len(xs), root |-> TRUE, unit |-> u]

\* value if the list is not empty else 0
OrZero(xs, v) == IF xs # <<>> THEN v ELSE Num(0)

\* mutant: forward and backward are exchanged
SeparateDirections_Swapped(packets) ==
    IF packets = <<>> THEN << <<>>, <<>> >>
    ELSE IF ~packets[1].ip THEN <<packets, <<>> >>
    ELSE <<SelectSeq(packets, LAMBDA p : p.ip /\ p.src # packets[1].src),
           SelectSeq(packets, LAMBDA p : p.ip /\ p.src = packets[1].src)>>

\* _separate_directions: <<fwd_packets, bwd_packets>>
SeparateDirections(packets) ==
    IF packets = <<>> THEN << <<>>, <<>> >>
    ELSE IF ~packets[1].ip THEN <<packets, <<>> >>
    ELSE <<SelectSeq(packets, LAMBDA p : p.ip /\ p.src = packets[1].src),
           SelectSeq(packets, LAMBDA p : p.ip /\ p.src # packets[1].src)>>

\* [self._get_packet_length(p) for p in packets]
Lengths(packets) == [i \in 1..Len(packets) |-> packets[i].len]

\* _get_header_length
HeaderLength(p) ==
    (IF p.ip THEN p.ihl * 4 ELSE 0)
    + (IF p.proto = 6 THEN p.dataofs * 4 ELSE IF p.proto = 17 THEN 8 ELSE 0)

HeaderLengths(packets) == [i \in 1..Len(packets) |-> HeaderLength(packets[i])]

\* _calculate_iats, in microseconds
CalculateIats(packets) ==
    IF Len(packets) < 2 THEN <<>>
    ELSE [i \in 1..(Len(packets) - 1) |-> (packets[i + 1].time - packets[i].time) * MICROS]

\* _count_tcp_flags(packets).get(flag, 0)
CountFlag(packets, flag) ==
    Len(SelectSeq(packets, LAMBDA p : p.proto = 6 /\ flag \in p.flags))

\* _get_window_size
WindowSize(p) == IF p.proto = 6 THEN p.window ELSE 0

\* duration = end_time - start_time if start_time else 0
Duration(flow) == IF flow.start_time # 0 THEN flow.end_time - flow.start_time ELSE 0

\* features['flow_duration']
FlowDuration(flow) == Duration(flow) * MICROS

\* _get_feature_names
FeatureNames ==
    <<"flow_duration", "total_fwd_packets", "total_bwd_packets",
      "total_length_fwd_packets", "total_length_bwd_packets",
      "fwd_packet_length_max", "fwd_packet_length_min", "fwd_packet_length_mean",
      "fwd_packet_length_std", "bwd_packet_length_max", "bwd_packet_length_min",
      "bwd_packet_length_mean", "bwd_packet_length_std",
      "flow_bytes_per_sec", "flow_packets_per_sec",
      "flow_iat_mean", "flow_iat_std", "flow_iat_max", "flow_iat_min",
      "fwd_iat_total", "fwd_iat_mean", "fwd_iat_std", "fwd_iat_max", "fwd_iat_min",
      "bwd_iat_total", "bwd_iat_mean", "bwd_iat_std", "bwd_iat_max", "bwd_iat_min",
      "fwd_psh_flags", "bwd_psh_flags", "fwd_urg_flags", "bwd_urg_flags",
      "fwd_header_length", "bwd_header_length",
      "fwd_packets_per_sec", "bwd_packets_per_sec",
      "min_packet_length", "max_packet_length", "packet_length_mean",
      "packet_length_std", "packet_length_variance",
      "fin_flag_count", "syn_flag_count", "rst_flag_count", "psh_flag_count",
      "ack_flag_count", "urg_flag_count", "cwe_flag_count", "ece_flag_count",
      "down_up_ratio", "avg_packet_size", "avg_fwd_segment_size", "avg_bwd_segment_size",
      "fwd_header_length_total", "bwd_header_length_total",
      "subflow_fwd_packets", "subflow_fwd_bytes", "subflow_bwd_packets",
      "subflow_bwd_bytes", "init_win_bytes_forward", "init_win_bytes_backward",
      "act_data_pkt_fwd", "min_seg_size_forward",
      "active_mean", "active_std", "active_max", "active_min",
      "idle_mean", "idle_std", "idle_max", "idle_min">>

\* extract_features_from_flow for a flow with packets: the items of the
\* features dict in the order of their insertion
ExtractFeatures(flow) ==
    LET packets == flow.packets
        dirs == SeparateDirections(packets)
        fwd == dirs[1]
        bwd == dirs[2]
        duration == Duration(flow)
        fwd_lengths == Lengths(fwd)
        bwd_lengths == Lengths(bwd)
        all_lengths == fwd_lengths \o bwd_lengths
        fwd_iats == CalculateIats(fwd)
        bwd_iats == CalculateIats(bwd)
        all_iats == CalculateIats(packets)
        fwd_hdr == HeaderLengths(fwd)
        bwd_hdr == HeaderLengths(bwd)
        Rate(n) == IF duration > 0 THEN Ratio(n, duration) ELSE Num(0)
    IN
    << <<"flow_duration", Num(FlowDuration(flow))>>,
       <<"total_fwd_packets", Num(Len(fwd))>>,
       <<"total_bwd_packets", Num(Len(bwd))>>,
       <<"total_length_fwd_packets", Num(Sum(fwd_lengths))>>,
       <<"total_length_bwd_packets", Num(Sum(bwd_lengths))>>,
       <<"fwd_packet_length_max", OrZero(fwd_lengths, Num(MaxOf(fwd_lengths)))>>,
       <<"fwd_packet_length_min", OrZero(fwd_lengths, Num(MinOf(fwd_lengths)))>>,
       <<"fwd_packet_length_mean", OrZero(fwd_lengths, Mean(fwd_lengths))>>,
       <<"fwd_packet_length_std", OrZero(fwd_lengths, Std(fwd_lengths, 1))>>,
       <<"bwd_packet_length_max", OrZero(bwd_lengths, Num(MaxOf(bwd_lengths)))>>,
       <<"bwd_packet_length_min", OrZero(bwd_lengths, Num(MinOf(bwd_lengths)))>>,
       <<"bwd_packet_length_mean", OrZero(bwd_lengths, Mean(bwd_lengths))>>,
       <<"bwd_packet_length_std", OrZero(bwd_lengths, Std(bwd_lengths, 1))>>,
       <<"flow_bytes_per_sec", Rate(Sum(all_lengths))>>,
       <<"flow_packets_per_sec", Rate(Len(packets))>>,
       <<"fwd_packets_per_sec", Rate(Len(fwd))>>,
       <<"bwd_packets_per_sec", Rate(Len(bwd))>>,
       <<"flow_iat_mean", OrZero(all_iats, Mean(all_iats))>>,
       <<"flow_iat_std", OrZero(all_iats, Std(all_iats, MICROS))>>,
       <<"flow_iat_max", OrZero(all_iats, Num(MaxOf(all_iats)))>>,
       <<"flow_iat_min", OrZero(all_iats, Num(MinOf(all_iats)))>>,
       <<"fwd_iat_total", OrZero(fwd_iats, Num(Sum(fwd_iats)))>>,
       <<"fwd_iat_mean", OrZero(fwd_iats, Mean(fwd_iats))>>,
       <<"fwd_iat_std", OrZero(fwd_iats, Std(fwd_iats, MICROS))>>,
       <<"fwd_iat_max", OrZero(fwd_iats, Num(MaxOf(fwd_iats)))>>,
       <<"fwd_iat_min", OrZero(fwd_iats, Num(MinOf(fwd_iats)))>>,
       <<"bwd_iat_total", OrZero(bwd_iats, Num(Sum(bwd_iats)))>>,
       <<"bwd_iat_mean", OrZero(bwd_iats, Mean(bwd_iats))>>,
       <<"bwd_iat_std", OrZero(bwd_iats, Std(bwd_iats, MICROS))>>,
       <<"bwd_iat_max", OrZero(bwd_iats, Num(MaxOf(bwd_iats)))>>,
       <<"bwd_iat_min", OrZero(bwd_iats, Num(MinOf(bwd_iats)))>>,
       <<"fwd_psh_flags", Num(CountFlag(fwd, "PSH"))>>,
       <<"bwd_psh_flags", Num(CountFlag(bwd, "PSH"))>>,
       <<"fwd_urg_flags", Num(CountFlag(fwd, "URG"))>>,
       <<"bwd_urg_flags", Num(CountFlag(bwd, "URG"))>>,
       <<"fin_flag_count", Num(CountFlag(packets, "FIN"))>>,
       <<"syn_flag_count", Num(CountFlag(packets, "SYN"))>>,
       <<"rst_flag_count", Num(CountFlag(packets, "RST"))>>,
       <<"psh_flag_count", Num(CountFlag(packets, "PSH"))>>,
       <<"ack_flag_count", Num(CountFlag(packets, "ACK"))>>,
       <<"urg_flag_count", Num(CountFlag(packets, "URG"))>>,
       <<"cwe_flag_count", Num(CountFlag(packets, "CWR"))>>,
       <<"ece_flag_count", Num(CountFlag(packets, "ECE"))>>,
       <<"fwd_header_length", OrZero(fwd_hdr, Mean(fwd_hdr))>>,
       <<"bwd_header_length", OrZero(bwd_hdr, Mean(bwd_hdr))>>,
       <<"fwd_header_length_total", Num(Sum(fwd_hdr))>>,
       <<"bwd_header_length_total", Num(Sum(bwd_hdr))>>,
       <<"min_packet_length", OrZero(all_lengths, Num(MinOf(all_lengths)))>>,
       <<"max_packet_length", OrZero(all_lengths, Num(MaxOf(all_lengths)))>>,
       <<"packet_length_mean", OrZero(all_lengths, Mean(all_lengths))>>,
       <<"packet_length_std", OrZero(all_lengths, Std(all_lengths, 1))>>,
       <<"packet_length_variance", OrZero(all_lengths, Var(all_lengths))>>,
       <<"down_up_ratio", IF Sum(fwd_lengths) > 0
                          THEN Ratio(Sum(bwd_lengths), Sum(fwd_lengths)) ELSE Num(0)>>,
       <<"avg_packet_size", OrZero(all_lengths, Mean(all_lengths))>>,
       <<"avg_fwd_segment_size", OrZero(fwd_lengths, Mean(fwd_lengths))>>,
       <<"avg_bwd_segment_size", OrZero(bwd_lengths, Mean(bwd_lengths))>>,
       <<"subflow_fwd_packets", Num(Len(fwd))>>,
       <<"subflow_fwd_bytes", Num(Sum(fwd_lengths))>>,
       <<"subflow_bwd_packets", Num(Len(bwd))>>,
       <<"subflow_bwd_bytes", Num(Sum(bwd_lengths))>>,
       <<"init_win_bytes_forward", OrZero(fwd, Num(WindowSize(fwd[1])))>>,
       <<"init_win_bytes_backward", OrZero(bwd, Num(WindowSize(bwd[1])))>>,
       <<"act_data_pkt_fwd", Num(Len(SelectSeq(fwd, LAMBDA p : p.len > 0)))>>,
       <<"min_seg_size_forward", OrZero(fwd_lengths, Num(MinOf(fwd_lengths)))>>,
       <<"active_mean", Num(0)>>, <<"active_std", Num(0)>>,
       <<"active_max", Num(0)>>, <<"active_min", Num(0)>>,
       <<"idle_mean", Num(0)>>, <<"idle_std", Num(0)>>,
       <<"idle_max", Num(0)>>, <<"idle_min", Num(0)>> >>

\* extract_features_from_flow: None for a flow without packets
ExtractFeaturesFromFlow(flow) ==
    IF flow.packets = <<>>
    THEN [done |-> TRUE, none |-> TRUE, items |-> <<>>]
    ELSE [done |-> TRUE, none |-> FALSE, items |-> ExtractFeatures(flow)]

(***************************************************************************)
(* The feature extractor on its own: a flow between two endpoints is drawn *)
(* (TCP or UDP, up to FxMaxPackets packets in capture order, each from     *)
(* either endpoint) and its features are extracted.                        *)
(***************************************************************************)
FxMaxPackets == 3
FxMaxTime == 2

FxKinds(proto) ==
    IF proto = 6
    THEN {[len |-> 60, flags |-> {"SYN"}], [len |-> 100, flags |-> {"PSH", "ACK"}]}
    ELSE {[len |-> 80, flags |-> {}]}

FxPackets(proto) ==
    {[ip |-> TRUE, src |-> a, proto |-> proto, time |-> t, len |-> k.len, flags |-> k.flags,
      ihl |-> 5, dataofs |-> 5, window |-> 8192] :
        a \in {IP_10, IP_2}, t \in 0..FxMaxTime, k \in FxKinds(proto)}

\* capture timestamps do not decrease along a flow
InCaptureOrder(q) == \A i \in 1..(Len(q) - 1) : q[i].time <= q[i + 1].time

InitExtract ==
    /\ InitPipe
    /\ IdleKey
    /\ IdlePredict
    /\ IdleAlerts
    /\ IdleSessions
    /\ \E proto \in {6, 17} : \E n \in 0..FxMaxPackets : \E q \in [1..n -> FxPackets(proto)] :
         \E st \in 0..1 : \E d \in 0..FxMaxTime :
            /\ InCaptureOrder(q)
            /\ fx_flow = [flow_key |-> <<IP_10, IP_2, 1000, 80, proto>>, packets |-> q,
                          start_time |-> st, end_time |-> st + d]
    /\ fx_features = NoFeatures
    /\ fx_again = NoFeatures

\* features = extractor.extract_features_from_flow(flow_data); the call reads
\* flow_data and writes neither it nor the extractor
ExtractCall ==
    /\ ~fx_features.done
    /\ fx_features' = ExtractFeaturesFromFlow(fx_flow)
    /\ UNCHANGED <<fx_flow, fx_again, pipeVars, keyVars, predictVars, alertVars, sessionVars>>

\* mutant: the extractor keeps the packets of its earlier call
ExtractAgain_KeepsPackets ==
    /\ fx_features.done
    /\ ~fx_again.done
    /\ fx_again' = ExtractFeaturesFromFlow([fx_flow EXCEPT !.packets = @ \o @])
    /\ UNCHANGED <<fx_flow, fx_features, pipeVars, keyVars, predictVars, alertVars, sessionVars>>

\* a later call of extract_features_from_flow on the same extractor with the
\* same flow_data
ExtractAgain ==
    /\ fx_features.done
    /\ ~fx_again.done
    /\ fx_again' = ExtractFeaturesFromFlow(fx_flow)
    /\ UNCHANGED <<fx_flow, fx_features, pipeVars, keyVars, predictVars, alertVars, sessionVars>>

NextExtract == ExtractCall \/ ExtractAgain

SpecExtract == InitExtract /\ [][NextExtract]_vars

(***************************************************************************)
(* The running pipeline on the real time scale: the first TimedHorizon      *)
(* seconds after start() of a capture that is not stopped and whose sniff  *)
(* does not fail.  A sleep of the checker (SWEEP_SLEEP seconds) that       *)
(* starts in this window ends after it, so the checker sweeps at most once.*)
(***************************************************************************)
TimedHorizon == 5

TimedHeaders == {HdrFwd, HdrBwd}

TickTimed ==
    /\ service_pc = "started"
    /\ now < TimedHorizon
    /\ now' = now + 1
    /\ UNCHANGED <<is_capturing, is_running, packet_queue, flow_table, flows_ready,
                   total_packets_captured, lock, service_pc, capture_pc, proc_pc, proc_pkt,
                   checker_pc, current_time, flows_to_remove, wake_time, worker_pc,
                   worker_flows, alerts, captured, accepted, emitted, stop_at, sniff_failed>>
    /\ UNCHANGED <<failed_with, funVars>>
    /\ UNCHANGED <<alert_types, is_loaded, outcomes>>

NextTimed ==
    \/ TickTimed
    \/ \E o \in {"ok", "model_error", "interface_error"} : Start(o)
    \/ \E h \in TimedHeaders : PacketCallback(h)
    \/ CallbackCount
    \/ ProcGet
    \/ ProcRecord
    \/ CheckerLoop
    \/ CheckerCopy
    \/ CheckerDelete
    \/ WorkerGet
    \/ \E o \in ClassifierOutcomes : WorkerProcess(o)

SpecTimed == Init /\ [][NextTimed]_vars

(***************************************************************************)
(* The prediction worker on a batch: the service runs, the sweep has       *)
(* queued up to WorkerBatch completed flows (the program's deque holds     *)
(* 1000), the checker sleeps and no packet arrives.  The worker takes the  *)
(* batch and classifies it, each classifier call succeeding or raising;    *)
(* stop() may come at any moment.                                          *)
(***************************************************************************)
WorkerBatch == 3

\* the completed flow of one packet with header h, captured and recorded at 0
OnePacketFlow(h, n) ==
    [flow_key |-> ExtractFlowKey(h),
     packets |-> <<[id |-> n, ip |-> h.ip, src |-> h.src, dst |-> h.dst, sport |-> h.sport,
                    dport |-> h.dport, proto |-> h.proto, time |-> 0]>>,
     start_time |-> 0, end_time |-> 0]

HdrDns == [ip |-> TRUE, src |-> IP_1, dst |-> IP_2, sport |-> 1000, dport |-> 80, proto |-> 17]
BatchFlows == {OnePacketFlow(HdrFwd, 1), OnePacketFlow(HdrUdp, 2), OnePacketFlow(HdrDns, 3)}

\* the queues of distinct flows of at most WorkerBatch flows
Batches ==
    {q \in UNION {[1..n -> BatchFlows] : n \in 1..WorkerBatch} :
        \A i, j \in 1..Len(q) : i # j => q[i] # q[j]}

RECURSIVE AllPackets(_)
\* the packets of a sequence of flows, flow after flow
AllPackets(fs) ==
    IF fs = <<>> THEN <<>> ELSE Head(fs).packets \o AllPackets(Tail(fs))

InitWorker ==
    /\ flows_ready \in Batches
    /\ now = FLOW_TIMEOUT + 1
    /\ is_capturing = TRUE
    /\ is_running = TRUE
    /\ is_loaded = TRUE
    /\ packet_queue = <<>>
    /\ flow_table = <<>>
    /\ total_packets_captured = Len(flows_ready)
    /\ lock = "free"
    /\ service_pc = "started"
    /\ capture_pc = "sniff"
    /\ proc_pc = "loop"
    /\ proc_pkt = NoPacket
    /\ checker_pc = "sleep"
    /\ current_time = 0
    /\ flows_to_remove = {}
    /\ wake_time = FLOW_TIMEOUT + 1 + SWEEP_SLEEP
    /\ worker_pc = "loop"
    /\ worker_flows = <<>>
    /\ alerts = <<>>
    /\ alert_types = <<>>
    /\ outcomes = <<>>
    /\ captured = AllPackets(flows_ready)
    /\ accepted = captured
    /\ emitted = flows_ready
    /\ stop_at = [captured |-> 0, flows |-> 0, emitted |-> 0]
    /\ sniff_failed = FALSE
    /\ failed_with = <<>>
    /\ IdleKey
    /\ IdlePredict
    /\ IdleExtract
    /\ IdleAlerts
    /\ IdleSessions

NextWorker ==
    \/ WorkerGet
    \/ \E o \in ClassifierOutcomes : WorkerProcess(o)
    \/ WorkerExit
    \/ Stop

SpecWorker == InitWorker /\ [][NextWorker]_vars

(***************************************************************************)
(* DataManager: the alerts in memory and the statistics.  An alert is the  *)
(* dict built by add_alert; of its fields the model keeps the counter part *)
(* of the id (total_predictions at the time of the call) and attack_type.  *)
(***************************************************************************)
\* deque(maxlen=MAX_ALERTS_IN_MEMORY); 1000 in config.py, scaled down
MAX_ALERTS_IN_MEMORY == 3
\* calls of add_alert in one run
MaxAlerts == 4
\* largest limit passed to get_recent_alerts
MaxLimit == 4

\* the attack_type of the results the worker hands to add_alert
ResultTypes == {"Benign", "DDoS", "Error"}

\* the attack_type arguments of get_recent_alerts; "" stands for None
FilterTypes == {"", "Benign", "DDoS"}

\* self.alerts.append(alert)
AlertsAppend(q, a) ==
    IF Len(q) >= MAX_ALERTS_IN_MEMORY THEN Append(Tail(q), a) ELSE Append(q, a)

\* DataManager.add_alert
AddAlert(t) ==
    /\ dm_total_predictions < MaxAlerts
    /\ dm_alerts' = AlertsAppend(dm_alerts, [id |-> dm_total_predictions, attack_type |-> t])
    /\ dm_total_predictions' = dm_total_predictions + 1
    /\ dm_attack_counts' = IF t \in AttackTypes
                           THEN [dm_attack_counts EXCEPT ![t] = @ + 1]
                           ELSE dm_attack_counts
    /\ UNCHANGED <<ga_result, pipeVars, keyVars, predictVars, extractVars, sessionVars>>

\* DataManager.clear_alerts
ClearAlerts ==
    /\ dm_alerts # <<>>
    /\ dm_alerts' = <<>>
    /\ UNCHANGED <<dm_total_predictions, dm_attack_counts, ga_result, pipeVars, keyVars,
                   predictVars, extractVars, sessionVars>>

\* Python q[i:] for a list q and an integer i
SliceFrom(q, i) ==
    LET start == IF i < 0
                 THEN (IF Len(q) + i < 0 THEN 0 ELSE Len(q) + i)
                 ELSE (IF i > Len(q) THEN Len(q) ELSE i)
    IN  SubSeq(q, start + 1, Len(q))

\* Python q[::-1]
Reversed_(q) == [i \in 1..Len(q) |-> q[Len(q) + 1 - i]]

\* what get_recent_alerts returns: the filter, alerts_list[-limit:][::-1]
RecentAlerts(stored, limit, attack_type) ==
    LET alerts_list == IF attack_type # ""
                       THEN SelectSeq(stored, LAMBDA a : a.attack_type = attack_type)
                       ELSE stored
    IN  Reversed_(SliceFrom(alerts_list, 0 - limit))

\* DataManager.get_recent_alerts, as called by GET /api/alerts
GetRecentAlerts(limit, attack_type) ==
    /\ ga_result' = [done |-> TRUE, limit |-> limit, attack_type |-> attack_type,
                     alerts |-> RecentAlerts(dm_alerts, limit, attack_type)]
    /\ UNCHANGED <<dm_alerts, dm_total_predictions, dm_attack_counts, pipeVars, keyVars,
                   predictVars, extractVars, sessionVars>>

InitAlerts ==
    /\ InitPipe
    /\ IdleKey
    /\ IdlePredict
    /\ IdleExtract
    /\ IdleAlerts
    /\ IdleSessions

NextAlerts ==
    \/ \E t \in ResultTypes : AddAlert(t)
    \/ ClearAlerts
    \/ \E limit \in 0..MaxLimit : \E attack_type \in FilterTypes :
          GetRecentAlerts(limit, attack_type)

SpecAlerts == InitAlerts /\ [][NextAlerts]_vars

(***************************************************************************)
(* The service over several calls of start() and stop().  Each thread the  *)
(* calls create is kept with its position.  The calls follow each other    *)
(* within FLOW_TIMEOUT seconds of the first packet: the clock stays at 0,  *)
(* no flow times out, so the sweeps of the checkers and the fetches of the *)
(* prediction workers find nothing and only the ends of these threads are  *)
(* steps here.  A processing thread takes a packet and records it in one   *)
(* step, a callback puts and counts in one step.                           *)
(***************************************************************************)
\* calls of start() that return True and calls of stop() in one run
MaxCalls == 3

SessHeaders == {HdrFwd, HdrArp}

\* the number of the session the calls cs have opened: a start() opens a new
\* session when it is the first call or follows a stop()
Session(cs) ==
    Cardinality({i \in 1..Len(cs) : cs[i] = "start" /\ (i = 1 \/ cs[i - 1] = "stop")})

\* what no step of the sessions specification changes
sessFrame == <<now, flows_ready, lock, service_pc, capture_pc, proc_pc, proc_pkt, checker_pc,
               current_time, flows_to_remove, wake_time, worker_pc, worker_flows, alerts,
               alert_types, outcomes, emitted, stop_at, sniff_failed, failed_with,
               keyVars, predictVars, extractVars, alertVars>>

\* LiveDetectionService.start with LiveCapture.start_capture, in any state of
\* the service
SessStart(outcome) ==
    /\ Len(calls) < MaxCalls
    /\ is_loaded' = (is_loaded \/ outcome # "model_error")
    /\ IF outcome = "ok"
       THEN /\ IF is_capturing
               THEN UNCHANGED <<is_capturing, processing_threads, timeout_threads,
                                capture_threads>>
               ELSE /\ is_capturing' = TRUE
                    /\ processing_threads' = Append(processing_threads, "loop")
                    /\ timeout_threads' = Append(timeout_threads, "loop")
                    /\ capture_threads' =
                          Append(capture_threads,
                                 [pc |-> "sniff", session |-> Session(Append(calls, "start"))])
            /\ is_running' = TRUE
            /\ prediction_threads' = Append(prediction_threads, "loop")
            /\ calls' = Append(calls, "start")
       ELSE UNCHANGED <<is_capturing, is_running, calls, capture_threads,
                        processing_threads, timeout_threads, prediction_threads>>
    /\ UNCHANGED <<packet_queue, flow_table, total_packets_captured, captured, accepted,
                   fed_by, sessFrame>>

\* LiveDetectionService.stop with LiveCapture.stop_capture; the joins change
\* no state
SessStop ==
    /\ Len(calls) < MaxCalls
    /\ is_running' = FALSE
    /\ is_capturing' = FALSE
    /\ calls' = Append(calls, "stop")
    /\ UNCHANGED <<is_loaded, packet_queue, flow_table, total_packets_captured, captured,
                   accepted, capture_threads, processing_threads, timeout_threads,
                   prediction_threads, fed_by, sessFrame>>

\* _packet_callback called by the sniff of capture thread i
SessPacket(i, h) ==
    /\ capture_threads[i].pc = "sniff"
    /\ Len(captured) < MaxPackets
    /\ LET p == MkPacket(h) IN
       /\ captured' = Append(captured, p)
       /\ IF Len(packet_queue) < PACKET_BUFFER_SIZE
          THEN /\ packet_queue' = Append(packet_queue, p)
               /\ accepted' = Append(accepted, p)
               /\ total_packets_captured' = total_packets_captured + 1
               /\ fed_by' = Append(fed_by, capture_threads[i].session)
          ELSE UNCHANGED <<packet_queue, accepted, total_packets_captured, fed_by>>
    /\ UNCHANGED <<is_capturing, is_running, is_loaded, flow_table, calls, capture_threads,
                   processing_threads, timeout_threads, prediction_threads, sessFrame>>

\* capture_worker of thread i: sniff raises or returns;
\* finally: self.is_capturing = False
SessSniffEnds(i) ==
    /\ capture_threads[i].pc = "sniff"
    /\ capture_threads' = [capture_threads EXCEPT ![i].pc = "done"]
    /\ is_capturing' = FALSE
    /\ UNCHANGED <<is_running, is_loaded, packet_queue, flow_table, total_packets_captured,
                   captured, accepted, calls, processing_threads, timeout_threads,
                   prediction_threads, fed_by, sessFrame>>

\* _process_packets of thread i: one iteration that gets a packet
SessProcess(i) ==
    /\ processing_threads[i] = "loop"
    /\ packet_queue # <<>>
    /\ packet_queue' = Tail(packet_queue)
    /\ LET p == Head(packet_queue) IN
       flow_table' = IF ExtractFlowKey(p) = NoKey THEN flow_table
                     ELSE RecordPacket(flow_table, ExtractFlowKey(p), p, now)
    /\ UNCHANGED <<is_capturing, is_running, is_loaded, total_packets_captured, captured,
                   accepted, calls, capture_threads, processing_threads, timeout_threads,
                   prediction_threads, fed_by, sessFrame>>

\* _process_packets of thread i: the while condition is false
SessProcExit(i) ==
    /\ processing_threads[i] = "loop"
    /\ ~is_capturing
    /\ packet_queue = <<>>
    /\ processing_threads' = [processing_threads EXCEPT ![i] = "done"]
    /\ UNCHANGED <<is_capturing, is_running, is_loaded, packet_queue, flow_table,
                   total_packets_captured, captured, accepted, calls, capture_threads,
                   timeout_threads, prediction_threads, fed_by, sessFrame>>

\* _flow_timeout_checker of thread i: the while condition is false
SessCheckerExit(i) ==
    /\ timeout_threads[i] = "loop"
    /\ ~is_capturing
    /\ timeout_threads' = [timeout_threads EXCEPT ![i] = "done"]
    /\ UNCHANGED <<is_capturing, is_running, is_loaded, packet_queue, flow_table,
                   total_packets_captured, captured, accepted, calls, capture_threads,
                   processing_threads, prediction_threads, fed_by, sessFrame>>

\* _prediction_worker of thread i: the while condition is false
SessWorkerExit(i) ==
    /\ prediction_threads[i] = "loop"
    /\ ~is_running
    /\ prediction_threads' = [prediction_threads EXCEPT ![i] = "done"]
    /\ UNCHANGED <<is_capturing, is_running, is_loaded, packet_queue, flow_table,
                   total_packets_captured, captured, accepted, calls, capture_threads,
                   processing_threads, timeout_threads, fed_by, sessFrame>>

InitSessions ==
    /\ InitPipe
    /\ IdleKey
    /\ IdlePredict
    /\ IdleExtract
    /\ IdleAlerts
    /\ IdleSessions

NextSessions ==
    \/ \E o \in {"ok", "model_error", "interface_error"} : SessStart(o)
    \/ SessStop
    \/ \E i \in 1..Len(capture_threads) : \E h \in SessHeaders : SessPacket(i, h)
    \/ \E i \in 1..Len(capture_threads) : SessSniffEnds(i)
    \/ \E i \in 1..Len(processing_threads) : SessProcess(i)
    \/ \E i \in 1..Len(processing_threads) : SessProcExit(i)
    \/ \E i \in 1..Len(timeout_threads) : SessCheckerExit(i)
    \/ \E i \in 1..Len(prediction_threads) : SessWorkerExit(i)

SpecSessions == InitSessions /\ [][NextSessions]_vars

(***************************************************************************)
(* Operators used by the properties.                                       *)
(***************************************************************************)
\* the packets of s whose flow key is k, in order
PacketsOfKey(s, k) == SelectSeq(s, LAMBDA p : p.ip /\ ExtractFlowKey(p) = k)

RECURSIVE FlowPackets(_, _)
\* the packets of the flows of fs with key k, flow after flow
FlowPackets(fs, k) ==
    IF fs = <<>> THEN <<>>
    ELSE (IF Head(fs).flow_key = k THEN Head(fs).packets ELSE <<>>) \o FlowPackets(Tail(fs), k)

\* the packets of key k on the way from the queue to the completed flows:
\* completed, then in the table, then in the hands of the processing thread,
\* then queued
PipelinePackets(k) ==
    FlowPackets(emitted, k) \o FlowPackets(flow_table, k)
        \o PacketsOfKey(IF proc_pkt.id = 0 THEN <<>> ELSE <<proc_pkt>>, k)
        \o PacketsOfKey(packet_queue, k)

FlowKeys == {ExtractFlowKey(h) : h \in Headers} \ {NoKey}

InSeq(x, s) == \E i \in 1..Len(s) : s[i] = x

\* number of flows of fs that hold packet p
Holders(fs, p) == Cardinality({i \in 1..Len(fs) : InSeq(p, fs[i].packets)})

\* p2 is a packet in the opposite direction of p1: same endpoints, same protocol
Reversed(p1, p2) ==
    /\ p1.ip /\ p2.ip
    /\ p2.src = p1.dst /\ p2.dst = p1.src
    /\ p2.sport = p1.dport /\ p2.dport = p1.sport
    /\ p2.proto = p1.proto

HasKey(table, k) == \E i \in 1..Len(table) : table[i].flow_key = k

C2_BidirectionalKey ==
    Reversed(key_p1, key_p2) =>
        /\ key_live # <<>> => key_live[1] = key_live[2] /\ key_live[1] # NoKey
        /\ key_pcap # <<>> => key_pcap[1] = key_pcap[2] /\ key_pcap[1] # NoKey

\* both resolvers have run on a packet from "10.0.0.10" to "10.0.0.2" and its reverse
C2_Witness ==
    /\ Reversed(key_p1, key_p2)
    /\ key_p1.src = IP_10 /\ key_p1.dst = IP_2
    /\ key_live # <<>>
    /\ key_pcap # <<>>

\* the step in which the sweep deletes the flows it completed
SweepDeletes == checker_pc = "delete" /\ checker_pc' = "sleep"

(***************************************************************************)
(* C3 (as stated): a sweep that runs at current_time removes a flow last   *)
(* seen at T exactly if current_time >= T + FLOW_TIMEOUT.                  *)
(***************************************************************************)
C3_RemovedAtTimeout ==
    [][SweepDeletes =>
        \A i \in 1..Len(flow_table) :
            (current_time >= flow_table[i].last_seen + FLOW_TIMEOUT)
                <=> ~HasKey(flow_table', flow_table[i].flow_key)]_vars

(***************************************************************************)
(* C3 (amended): a sweep that runs at current_time removes a flow last     *)
(* seen at T exactly if current_time > T + FLOW_TIMEOUT; a flow leaves the *)
(* table only in a sweep, and a key enters the table only when the         *)
(* processing thread records a packet of that key.                         *)
(***************************************************************************)
C3_RemovedAfterTimeout ==
    [][/\ SweepDeletes =>
            \A i \in 1..Len(flow_table) :
                (current_time > flow_table[i].last_seen + FLOW_TIMEOUT)
                    <=> ~HasKey(flow_table', flow_table[i].flow_key)
       /\ \A k \in FlowKeys :
            /\ HasKey(flow_table, k) /\ ~HasKey(flow_table', k) => SweepDeletes
            /\ ~HasKey(flow_table, k) /\ HasKey(flow_table', k) =>
                    proc_pc = "record" /\ ExtractFlowKey(proc_pkt) = k]_vars

\* a sweep is about to delete one flow and to keep another that has been
\* idle for exactly FLOW_TIMEOUT
C3_Witness ==
    /\ checker_pc = "delete"
    /\ flows_to_remove # {}
    /\ \E i \in 1..Len(flow_table) :
        /\ flow_table[i].flow_key \notin flows_to_remove
        /\ current_time = flow_table[i].last_seen + FLOW_TIMEOUT

(***************************************************************************)
(* C4: no completed flow is discarded: every CompletedFlow the sweep       *)
(* produced is still in the ready queue unless the prediction worker took  *)
(* it, also when the ready queue was full at sweep time.                   *)
(***************************************************************************)
C4_NoCompletedFlowDiscarded ==
    emitted = alerts \o worker_flows \o flows_ready

(***************************************************************************)
(* C5: once stop() was called with N flows in the table and the timeout    *)
(* checker has ended, exactly N CompletedFlows were emitted since the stop *)
(* and, when the processing thread has ended too, the table is empty.      *)
(***************************************************************************)
C5_FlushOnStop ==
    service_pc = "stopped" /\ checker_pc = "done" =>
        /\ Len(emitted) = stop_at.emitted + stop_at.flows
        /\ proc_pc = "done" => flow_table = <<>>

(***************************************************************************)
(* C6: whenever the lock is free, each packet recorded into the flow table *)
(* (accepted, with a flow key, and no longer queued or in the hands of the *)
(* processing thread) is in exactly one place: one flow-table entry or one *)
(* CompletedFlow.                                                          *)
(***************************************************************************)
C6_RecordedPacketInOnePlace ==
    lock = "free" =>
        \A i \in 1..Len(accepted) :
            LET p == accepted[i] IN
            (p.ip /\ ~InSeq(p, packet_queue) /\ p # proc_pkt) =>
                Holders(flow_table, p) + Holders(emitted, p) = 1

\* a sweep has completed a flow and released the lock while the processing
\* thread is about to record the next packet of the same key
C6_Witness ==
    /\ lock = "free"
    /\ checker_pc = "sleep"
    /\ proc_pc = "record"
    /\ \E i \in 1..Len(emitted) : emitted[i].flow_key = ExtractFlowKey(proc_pkt)

(***************************************************************************)
(* C7: two packets of opposite direction between the same endpoints, the   *)
(* second captured less than FLOW_TIMEOUT after the first, are never in    *)
(* two different flows.                                                    *)
(***************************************************************************)
C7_OppositeDirectionsMerge ==
    lock = "free" =>
        \A i, j \in 1..Len(accepted) :
            LET p1 == accepted[i]
                p2 == accepted[j]
            IN  (i < j /\ Reversed(p1, p2) /\ p2.time - p1.time < FLOW_TIMEOUT) =>
                    ~ \/ \E a, b \in 1..Len(emitted) :
                            a # b /\ InSeq(p1, emitted[a].packets) /\ InSeq(p2, emitted[b].packets)
                      \/ \E a \in 1..Len(emitted), b \in 1..Len(flow_table) :
                            InSeq(p1, emitted[a].packets) /\ InSeq(p2, flow_table[b].packets)

(***************************************************************************)
(* C8: after stop() no newly captured packet is put on the packet queue:   *)
(* every accepted packet was captured before the stop.                     *)
(***************************************************************************)
C8_NoIngestionAfterStop ==
    service_pc = "stopped" =>
        /\ \A i \in 1..Len(accepted) : accepted[i].id <= stop_at.captured
        /\ total_packets_captured <= stop_at.captured

(***************************************************************************)
(* C9: after stop() the capture thread, the processing thread, the timeout *)
(* checker and the prediction worker all eventually terminate.             *)
(***************************************************************************)
C9_ThreadsTerminate ==
    (service_pc = "stopped") ~>
        (capture_pc = "done" /\ proc_pc = "done" /\ checker_pc = "done" /\ worker_pc = "done")

(***************************************************************************)
(* C10: after a capture failure (sniff raised or ended) the reaper still    *)
(* completes every flow that was in the table at that moment: once the     *)
(* timeout checker has ended, each of them was emitted as a CompletedFlow. *)
(***************************************************************************)
C10_FlowsDrainAfterCaptureFailure ==
    (sniff_failed /\ checker_pc = "done") =>
        \A i \in 1..Len(failed_with) :
            \E j \in 1..Len(emitted) :
                /\ emitted[j].flow_key = failed_with[i].flow_key
                /\ emitted[j].start_time = failed_with[i].start_time

(***************************************************************************)
(* C11: a classifier call that raises does not end the worker and does not *)
(* cost the flow its result: every flow the worker processes is handed to  *)
(* add_alert, with the attack_type 'Error' when the transform or model     *)
(* call raised, and the worker goes on with the rest of its batch; it ends *)
(* only when the service was stopped.                                      *)
(***************************************************************************)
C11_FailureYieldsErrorResult ==
    [][/\ Len(outcomes') = Len(outcomes) + 1 =>
            /\ alerts' = Append(alerts, Head(worker_flows))
            /\ Len(alert_types') = Len(alerts')
            /\ (outcomes'[Len(outcomes')] = "transform_error") <=>
                   (alert_types'[Len(alert_types')] = "Error")
            /\ worker_flows' = Tail(worker_flows)
            /\ worker_pc' = IF worker_flows' = <<>> THEN "loop" ELSE "process"
       /\ worker_pc' = "done" => ~is_running']_vars

\* a classifier call raised, its flow has an error result, and a later flow
\* of the batch was classified
C11_Witness ==
    \E i \in 1..Len(outcomes) : \E j \in 1..Len(outcomes) :
        /\ i < j
        /\ outcomes[i] = "transform_error"
        /\ alert_types[i] = "Error"
        /\ outcomes[j] = "ok"
        /\ alert_types[j] = "Classified"
        /\ Len(alerts) = Len(outcomes)

(***************************************************************************)
(* C12: every completed flow put on the ready queue yields exactly one     *)
(* result handed to add_alert: never two, and, once the worker and the     *)
(* checker have ended after stop(), not zero either.                       *)
(***************************************************************************)
ResultsOf(f) == Cardinality({j \in 1..Len(alerts) : alerts[j] = f})

C12_OneResultPerCompletedFlow ==
    /\ \A i \in 1..Len(emitted) : ResultsOf(emitted[i]) <= 1
    /\ (worker_pc = "done" /\ checker_pc = "done") =>
           \A i \in 1..Len(emitted) : ResultsOf(emitted[i]) = 1

(***************************************************************************)
(* C13: the completed flows dropped at the handoff are counted: once a     *)
(* flow was dropped, a counter of the capture status holds the number of   *)
(* flows that were appended to the ready queue and left it without         *)
(* reaching the worker.                                                    *)
(***************************************************************************)
\* completed flows that are neither queued nor taken by the worker
DroppedAtHandoff == Len(emitted) - Len(flows_ready) - Len(worker_flows) - Len(outcomes)

StatusNumbers == {"total_packets", "active_flows", "completed_flows", "queue_size"}

C13_DropsAreCounted ==
    DroppedAtHandoff > 0 =>
        \E f \in StatusNumbers : GetCaptureStatus[f] = DroppedAtHandoff

(***************************************************************************)
(* C14: the capture side never waits for the classifier.  While the        *)
(* prediction worker is inside its classifier and sink calls, or the ready *)
(* queue is full, every step the capture callback, the processing thread   *)
(* or the timeout checker is about to take can be taken, unless the        *)
(* checker itself holds the lock for its sweep; and the sweep can always   *)
(* be finished.                                                            *)
(***************************************************************************)
WorkerStalled == worker_pc = "process"
ReadyFull == Len(flows_ready) = FLOWS_READY_MAXLEN

C14_IngestionNotBlockedByWorker ==
    /\ ((WorkerStalled \/ ReadyFull) /\ lock # "checker") =>
           /\ capture_pc = "count" => ENABLED CallbackCount
           /\ (proc_pc = "loop" /\ packet_queue # <<>>) => ENABLED ProcGet
           /\ proc_pc = "record" => ENABLED ProcRecord
           /\ checker_pc = "loop" => ENABLED CheckerLoop
           /\ checker_pc = "copy" => ENABLED CheckerCopy
    /\ checker_pc = "delete" => ENABLED CheckerDelete

\* the worker is inside a classifier call while the processing thread is
\* about to record a packet, and it can
C14_Witness ==
    /\ WorkerStalled
    /\ proc_pc = "record"
    /\ lock = "free"
    /\ ENABLED ProcRecord

(***************************************************************************)
(* C15: while capture runs, a flow that gets no more packets is completed  *)
(* within the flow timeout plus a slack of the same size.  Stated for the  *)
(* flows the checker could not have completed before it went to sleep      *)
(* (they were not yet timed out then): none of them is still in the flow   *)
(* table more than 2 * FLOW_TIMEOUT seconds after its last packet while    *)
(* that sleep has not ended.                                               *)
(***************************************************************************)
CheckerAsleep == checker_pc = "sleep" /\ now < wake_time

\* the moment the checker called time.sleep
SleepStart == wake_time - SWEEP_SLEEP

C15_CompletedWithinTimeoutAndSlack ==
    (is_capturing /\ CheckerAsleep) =>
        \A i \in 1..Len(flow_table) :
            SleepStart <= flow_table[i].last_seen + FLOW_TIMEOUT =>
                now - flow_table[i].last_seen <= FLOW_TIMEOUT + FLOW_TIMEOUT

(***************************************************************************)
(* C16: with a loaded predictor whose scaler has a named schema, the row   *)
(* the classifier receives has exactly the columns of the schema, in the   *)
(* order of the schema, with the value given for a feature that was given  *)
(* and 0 for a feature that was missing, and predict_flow returns a normal *)
(* result, not an error.                                                   *)
(***************************************************************************)
C16_MissingFeaturesPadded ==
    (pf_result # NoResult /\ pf_loaded /\ pf_schema.has_names) =>
        /\ Len(pf_result.row) = Len(pf_schema.names)
        /\ \A i \in 1..Len(pf_schema.names) :
              /\ pf_result.row[i][1] = pf_schema.names[i]
              /\ pf_result.row[i][2] =
                     IF HasColumn(pf_features, pf_schema.names[i])
                     THEN ValueOf(pf_features, pf_schema.names[i])
                     ELSE 0
        /\ pf_result.attack_type = "Classified"

\* schema [a, b, c] and the features {a: 1, c: 2}
C16_Witness ==
    /\ pf_loaded
    /\ pf_schema = [has_names |-> TRUE, names |-> <<"a", "b", "c">>]
    /\ pf_features = << <<"a", 1>>, <<"c", 2>> >>
    /\ pf_result = [attack_type |-> "Classified",
                    row |-> << <<"a", 1>>, <<"b", 0>>, <<"c", 2>> >>]

(***************************************************************************)
(* C17: for a flow with packets, the feature mapping has exactly the       *)
(* fields of feature_names, in the order of that list.                     *)
(***************************************************************************)
C17_FieldsInDeclaredOrder ==
    (fx_features.done /\ fx_flow.packets # <<>>) =>
        Columns(fx_features.items) = FeatureNames

(***************************************************************************)
(* C18: the flow_duration of a flow completed by the live pipeline is the  *)
(* capture timestamp of its last packet minus that of its first packet, in *)
(* microseconds, whenever the processing thread handled the packets.       *)
(* Stated for the flows whose start_time is not the zero of the clock.     *)
(***************************************************************************)
CaptureSpan(f) == (f.packets[Len(f.packets)].time - f.packets[1].time) * MICROS

C18_DurationFromCaptureTimestamps ==
    \A i \in 1..Len(emitted) :
        emitted[i].start_time > 0 => FlowDuration(emitted[i]) = CaptureSpan(emitted[i])

(***************************************************************************)
(* C19: a packet is forward iff its source address is that of the flow's   *)
(* first packet: total_fwd_packets counts the packets with that source,    *)
(* total_bwd_packets the others, so they add up to the number of packets,  *)
(* and a flow from one source has all its packets forward.                 *)
(***************************************************************************)
FromFirstSource(packets) == {i \in 1..Len(packets) : packets[i].src = packets[1].src}

C19_DirectionByFirstSource ==
    (fx_features.done /\ fx_flow.packets # <<>>) =>
        LET packets == fx_flow.packets
            fwd == ValueOf(fx_features.items, "total_fwd_packets")
            bwd == ValueOf(fx_features.items, "total_bwd_packets")
        IN  /\ fwd = Num(Cardinality(FromFirstSource(packets)))
            /\ bwd = Num(Len(packets) - Cardinality(FromFirstSource(packets)))
            /\ fwd.num + bwd.num = Len(packets)
            /\ (\A j \in 1..Len(packets) : packets[j].src = packets[1].src) =>
                   (fwd = Num(Len(packets)) /\ bwd = Num(0))

\* three packets, the second one from the other endpoint
C19_Witness ==
    /\ fx_features.done
    /\ Len(fx_flow.packets) = 3
    /\ fx_flow.packets[2].src # fx_flow.packets[1].src
    /\ fx_flow.packets[3].src = fx_flow.packets[1].src
    /\ ValueOf(fx_features.items, "total_fwd_packets") = Num(2)
    /\ ValueOf(fx_features.items, "total_bwd_packets") = Num(1)

(***************************************************************************)
(* C20: for a flow of exactly one packet every inter-arrival-time field    *)
(* and every standard-deviation field of the features is 0.                *)
(***************************************************************************)
IatFields ==
    {"flow_iat_mean", "flow_iat_std", "flow_iat_max", "flow_iat_min",
     "fwd_iat_total", "fwd_iat_mean", "fwd_iat_std", "fwd_iat_max", "fwd_iat_min",
     "bwd_iat_total", "bwd_iat_mean", "bwd_iat_std", "bwd_iat_max", "bwd_iat_min"}

StdFields ==
    {"fwd_packet_length_std", "bwd_packet_length_std", "packet_length_std",
     "flow_iat_std", "fwd_iat_std", "bwd_iat_std", "active_std", "idle_std"}

C20_SinglePacketZeroIatAndStd ==
    (fx_features.done /\ Len(fx_flow.packets) = 1) =>
        \A f \in IatFields \cup StdFields : IsZero(ValueOf(fx_features.items, f))

\* one packet: the deviation of its length was computed, and is 0
C20_Witness ==
    /\ fx_features.done
    /\ Len(fx_flow.packets) = 1
    /\ ValueOf(fx_features.items, "fwd_packet_length_std") =
           [num |-> 0, den |-> 1, root |-> TRUE, unit |-> 1]
    /\ IsZero(ValueOf(fx_features.items, "flow_iat_mean"))

C22_FailedStartStartsNothing ==
    service_pc = "error" =>
        /\ ~is_capturing
        /\ ~is_running
        /\ capture_pc = "none"
        /\ proc_pc = "none"
        /\ checker_pc = "none"
        /\ worker_pc = "none"
        /\ packet_queue = <<>>
        /\ flow_table = <<>>

\* start() returned False at the interface selection, after the model was loaded
C22_Witness ==
    /\ service_pc = "error"
    /\ is_loaded
    /\ ~is_capturing
    /\ capture_pc = "none"

(***************************************************************************)
(* C23: every flow in the flow table has at least one packet, a start_time *)
(* and a last_seen that were read from the clock, and                      *)
(* last_seen >= start_time.                                                *)
(***************************************************************************)
C23_FlowEntryWellFormed ==
    \A i \in 1..Len(flow_table) :
        /\ flow_table[i].packets # <<>>
        /\ flow_table[i].start_time \in 0..now
        /\ flow_table[i].last_seen \in 0..now
        /\ flow_table[i].last_seen >= flow_table[i].start_time

\* a flow of two packets recorded at different times
C23_Witness ==
    \E i \in 1..Len(flow_table) :
        /\ Len(flow_table[i].packets) = 2
        /\ flow_table[i].last_seen > flow_table[i].start_time

(***************************************************************************)
(* C24: a CompletedFlow on the ready queue never changes.  In every step,  *)
(* a completed flow the program still holds (queued, in the worker's batch *)
(* or handed to the sink) has the packets, start time and end time it had  *)
(* before; once the sweep has released the lock no flow-table entry shares *)
(* a packet with a completed flow; and a packet recorded for a key that is *)
(* not in the table opens a fresh entry holding only that packet.          *)
(***************************************************************************)
\* the completed flows the program holds
HeldFlows == flows_ready \o worker_flows \o alerts

\* a flow is identified by its first packet
FlowId(f) == f.packets[1].id

SharesPacket(f, g) == \E a \in 1..Len(f.packets) : InSeq(f.packets[a], g.packets)

C24_CompletedFlowImmutable ==
    [][/\ \A i \in 1..Len(HeldFlows) : \A j \in 1..Len(HeldFlows') :
              FlowId(HeldFlows'[j]) = FlowId(HeldFlows[i]) => HeldFlows'[j] = HeldFlows[i]
       /\ lock' = "free" =>
              \A i \in 1..Len(HeldFlows') : \A j \in 1..Len(flow_table') :
                  ~SharesPacket(HeldFlows'[i], flow_table'[j])
       /\ (proc_pc = "record" /\ proc_pc' = "loop"
              /\ ~HasKey(flow_table, ExtractFlowKey(proc_pkt))) =>
              flow_table' = Append(flow_table,
                                   [flow_key |-> ExtractFlowKey(proc_pkt),
                                    packets |-> <<proc_pkt>>,
                                    start_time |-> now, last_seen |-> now])]_vars

\* a flow was completed and a later packet of its key is in a fresh entry
C24_Witness ==
    /\ lock = "free"
    /\ \E i \in 1..Len(HeldFlows) : \E j \in 1..Len(flow_table) :
           /\ flow_table[j].flow_key = HeldFlows[i].flow_key
           /\ Len(flow_table[j].packets) = 1
           /\ flow_table[j].packets[1].id > HeldFlows[i].packets[1].id

(***************************************************************************)
(* C25: a packet without IP layer resolves to no flow key and is left out  *)
(* of the flow accounting: the step in which the processing thread takes   *)
(* it from the queue leaves the flow table and the ready queue unchanged   *)
(* and the thread at the head of its loop, with no packet in hand; no flow *)
(* in the table ever holds such a packet.                                  *)
(***************************************************************************)
\* the processing thread takes a packet without flow key from the queue
TakesKeylessPacket ==
    /\ proc_pc = "loop"
    /\ packet_queue # <<>>
    /\ packet_queue' = Tail(packet_queue)
    /\ ExtractFlowKey(Head(packet_queue)) = NoKey

C25_NonIpPacketExcluded ==
    [][/\ TakesKeylessPacket =>
            /\ UNCHANGED <<flow_table, flows_ready>>
            /\ proc_pc' = "loop"
            /\ proc_pkt' = NoPacket
       /\ \A i \in 1..Len(flow_table') : \A j \in 1..Len(flow_table'[i].packets) :
            /\ flow_table'[i].packets[j].ip
            /\ flow_table'[i].flow_key # NoKey]_vars

\* a non-IP packet was taken from the queue and skipped, and a packet that
\* came after it was recorded
C25_Witness ==
    \E i \in 1..Len(accepted) : \E j \in 1..Len(accepted) :
        /\ i < j
        /\ ~accepted[i].ip
        /\ accepted[j].ip
        /\ Holders(flow_table, accepted[j]) = 1
        /\ Holders(flow_table, accepted[i]) = 0

(***************************************************************************)
(* C26: get_recent_alerts(limit) returns at most `limit` alerts, the most  *)
(* recent first, for every limit >= 0 including 0, and leaves the stored   *)
(* alerts and the statistics unchanged.                                    *)
(***************************************************************************)
C26_AtMostLimitMostRecentFirst ==
    [][ga_result' # ga_result =>
          /\ Len(ga_result'.alerts) <= ga_result'.limit
          /\ \A i \in 1..(Len(ga_result'.alerts) - 1) :
                ga_result'.alerts[i].id > ga_result'.alerts[i + 1].id
          /\ UNCHANGED <<dm_alerts, dm_total_predictions, dm_attack_counts>>]_vars

(***************************************************************************)
(* C27: start() on a running service creates no additional thread: after   *)
(* start calls only, with no stop and no sniff that ended, there is        *)
(* exactly one capture thread, one packet-processing thread, one timeout   *)
(* checker and one prediction worker.                                      *)
(***************************************************************************)
\* the threads of ts that have not ended
Alive(ts) == Cardinality({i \in 1..Len(ts) : ts[i] # "done"})

OnlyStarts == calls # <<>> /\ \A i \in 1..Len(calls) : calls[i] = "start"

C27_StartTwiceOneThreadEach ==
    (OnlyStarts /\ \A i \in 1..Len(capture_threads) : capture_threads[i].pc = "sniff") =>
        /\ Len(capture_threads) = 1
        /\ Alive(processing_threads) = 1
        /\ Alive(timeout_threads) = 1
        /\ Alive(prediction_threads) = 1

(***************************************************************************)
(* C28: a capture thread of an earlier session changes nothing of a later  *)
(* session: is_capturing goes from true to false only by a stop() or by    *)
(* the end of a sniff of the current session, and a packet is put on the   *)
(* packet queue only by a capture thread of the current session.           *)
(***************************************************************************)
C28_OldCaptureThreadInert ==
    [][/\ (is_capturing /\ ~is_capturing') =>
            \/ calls' # calls
            \/ \E i \in 1..Len(capture_threads) :
                   /\ capture_threads[i].pc = "sniff"
                   /\ capture_threads'[i].pc = "done"
                   /\ capture_threads[i].session = Session(calls)
       /\ Len(fed_by') > Len(fed_by) => fed_by'[Len(fed_by')] = Session(calls)]_vars

(***************************************************************************)
(* C29: the packet-processing thread ends only when capture is off and the *)
(* packet queue is empty, so at that moment every packet that was put on   *)
(* the queue, those accepted before the stop included, has been recorded   *)
(* into a flow (still in the table or completed since) or was rejected as  *)
(* a packet without IP layer.                                              *)
(***************************************************************************)
\* packet p was recorded into a flow
Recorded(p) == Holders(flow_table, p) + Holders(emitted, p) >= 1

C29_ProcessingDrainsQueue ==
    [][(proc_pc # "done" /\ proc_pc' = "done") =>
          /\ ~is_capturing
          /\ packet_queue = <<>>
          /\ proc_pkt = NoPacket
          /\ \A i \in 1..Len(accepted) : accepted[i].ip => Recorded(accepted[i])]_vars

\* at stop() the table was empty and the first packet was still on its way;
\* the thread has ended and the packet is in the table
C29_Witness ==
    /\ proc_pc = "done"
    /\ service_pc = "stopped"
    /\ stop_at.flows = 0
    /\ stop_at.emitted = 0
    /\ stop_at.captured >= 1
    /\ Len(accepted) >= 1
    /\ accepted[1].id <= stop_at.captured
    /\ accepted[1].ip
    /\ Holders(flow_table, accepted[1]) = 1

(***************************************************************************)
(* C30: total_packets_captured never exceeds the number of packets the     *)
(* callback put on the packet queue and equals it whenever no callback is  *)
(* between its put and its count; the packet queue never holds more than   *)
(* PACKET_BUFFER_SIZE packets; and a packet that arrives while the queue   *)
(* is full is dropped: the callback returns at once and the queue, the     *)
(* accepted packets and the count stay as they were.                       *)
(***************************************************************************)
\* a packet arrives while the packet queue is full
ArrivesAtFullQueue ==
    /\ Len(captured') = Len(captured) + 1
    /\ Len(packet_queue) = PACKET_BUFFER_SIZE

C30_CountMatchesAcceptedPackets ==
    [][/\ total_packets_captured' <= Len(accepted')
       /\ capture_pc' # "count" => total_packets_captured' = Len(accepted')
       /\ Len(packet_queue') <= PACKET_BUFFER_SIZE
       /\ ArrivesAtFullQueue =>
             /\ UNCHANGED <<packet_queue, accepted, total_packets_captured>>
             /\ capture_pc' = "sniff"]_vars

\* packets were accepted and counted, a later one was dropped at the full
\* queue
C30_Witness ==
    /\ Len(captured) > Len(accepted)
    /\ Len(accepted) >= 1
    /\ total_packets_captured = Len(accepted)
    /\ capture_pc = "sniff"
    /\ Len(packet_queue) = PACKET_BUFFER_SIZE

====
